---- MODULE Spec2Model ----
(***************************************************************************)
(* A model of the BitTorrent leecher in src/src: the peer session state    *)
(* machine and piece download driver (network.rs), the peer-message and    *)
(* bencode codecs (network.rs, decoder.rs) and the metainfo loader          *)
(* (file.rs) and the subcommands that drive them (main.rs).  Bytes are     *)
(* naturals in 0..255, byte strings are sequences.                         *)
(***************************************************************************)
EXTENDS Integers, Sequences, FiniteSets, TLC

VARIABLES
    inbuf,      \* bytes the peer has sent that the session has not consumed yet
    eof,        \* the peer has closed its side of the connection
    owed,       \* requests the peer has received and not answered yet
    calls,      \* number of calls made on the session so far
    state,      \* PeerStream.state
    crashed,    \* the process has panicked
    dl,         \* the download_piece call in progress (its loop position)
    last,       \* the most recent call on the session and its outcome
    m_value,    \* message codec: the PeerMessage value converted
    m_bytes,    \* message codec: the bytes From<&PeerMessage> produced
    m_parsed,   \* message codec: what From<Vec<u8>> made of m_bytes
    m_pc,       \* message codec: "new", "encoded" or "decoded"
    overflow_checks, \* the build panics on integer overflow (debug profile)
    b_input,    \* bencode: the bytes handed to the decoder
    b_decoded,  \* bencode: what the decoder returned, or that it panicked
    b_n,        \* bencode: the count decode_bencoded_value returned, -1 if none
    b_out,      \* bencode: the bytes the encoder produced from b_decoded
    b_pc,       \* bencode: "new", "decoded", "panicked" or "encoded"
    d_map,      \* dictionary: the BTreeMap being filled
    d_entries,  \* dictionary: the mapping d_map stands for, key -> value
    d_log,      \* dictionary: the insertions made so far, in order
    d_out,      \* dictionary: the bytes the encoder produced from d_map
    d_pc,       \* dictionary: "building" or "encoded"
    t_file,     \* metainfo: the bytes of the .torrent file
    t_slice,    \* metainfo: the bytes of the file that encode its info value
    t_loaded,   \* metainfo: what read_from_file returned
    t_hashed,   \* metainfo: the bytes info_hash fed to SHA-1
    t_pc,       \* metainfo: "new", "loaded", "failed" or "hashed"
    h_info_hash, \* handshake codec: the info-hash given to PeerHandshake::new
    h_bytes,    \* handshake codec: the bytes written for it
    h_parsed,   \* handshake codec: what From<Vec<u8>> made of h_bytes
    h_pc,       \* handshake codec: "new", "written" or "parsed"
    c_cmd,      \* main: the subcommand being run
    c_info,     \* main: metainfo.info of the torrent file given
    c_piece_index, \* main: the piece_index argument of download_piece
    c_pc,       \* main: the position in the subcommand
    c_mark,     \* main: the value of calls when the current step began
    c_streams,  \* main: number of PeerStream values created
    c_downloads, \* main: the piece messages download_piece returned, per call
    c_payloads, \* main: the payloads folded from c_downloads
    c_file,     \* main: the output file
    c_steps,    \* main: the steps of the flow attempted so far and how they ended
    c_exit,     \* main: "running", or how the process ended
    r_body,     \* tracker: the body of the tracker's HTTP response
    r_decoded,  \* tracker: what BencodedValue::from made of r_body
    r_response, \* tracker: what TrackerResponse::try_from returned
    r_pc,       \* tracker: "new", "decoded", "parsed", "failed" or "panicked"
    u_info_hash, \* percent-encoding: the info-hash to encode
    u_urlencode, \* percent-encoding: what urlencode returned, <<>> before the call
    u_url_encode, \* percent-encoding: what url_encode returned, <<>> before the call
    l_input,    \* decoder loop: the bytes handed to decode_bencoded_list / _dict
    l_rest,     \* decoder loop: the slice the loop has still to read
    l_steps,    \* decoder loop: iterations that decoded a child so far
    l_pc        \* decoder loop: "new", "list", "dict", "returned" or "panicked"

sessVars == <<inbuf, eof, owed, calls, state, crashed, dl, last>>
msgVars == <<m_value, m_bytes, m_parsed, m_pc>>
buildVars == <<overflow_checks>>
benVars == <<b_input, b_decoded, b_n, b_out, b_pc>>
dictVars == <<d_map, d_entries, d_log, d_out, d_pc>>
metaVars == <<t_file, t_slice, t_loaded, t_hashed, t_pc>>
hsVars == <<h_info_hash, h_bytes, h_parsed, h_pc>>
mainVars == <<c_cmd, c_info, c_piece_index, c_pc, c_mark, c_streams,
              c_downloads, c_payloads, c_file, c_steps, c_exit>>
trVars == <<r_body, r_decoded, r_response, r_pc>>
urlVars == <<u_info_hash, u_urlencode, u_url_encode>>
loopVars == <<l_input, l_rest, l_steps, l_pc>>

\* every variable: each specification below moves one group and leaves the rest
vars == <<buildVars, sessVars, msgVars, benVars, dictVars, metaVars, hsVars,
          mainVars, trVars, urlVars, loopVars>>

\* what the actions of one group leave alone
notSess == <<buildVars, msgVars, benVars, dictVars, metaVars, hsVars,
            mainVars, trVars, urlVars, loopVars>>
notMsg == <<buildVars, sessVars, benVars, dictVars, metaVars, hsVars,
            mainVars, trVars, urlVars, loopVars>>
notBen == <<buildVars, sessVars, msgVars, dictVars, metaVars, hsVars,
            mainVars, trVars, urlVars, loopVars>>
notDict == <<buildVars, sessVars, msgVars, benVars, metaVars, hsVars,
            mainVars, trVars, urlVars, loopVars>>
notMeta == <<buildVars, sessVars, msgVars, benVars, dictVars, hsVars,
            mainVars, trVars, urlVars, loopVars>>
notHs == <<buildVars, sessVars, msgVars, benVars, dictVars, metaVars, mainVars,
          trVars, urlVars, loopVars>>

\* the program is built with overflow checks (debug profile) or without
\* (release profile)
AnyBuild == overflow_checks \in BOOLEAN

\* the message codec at rest
MsgIdle ==
    /\ m_value = [type |-> "Choke"]
    /\ m_bytes = <<>>
    /\ m_parsed = [ok |-> FALSE]
    /\ m_pc = "idle"

\* the bencode codec at rest
BenIdle ==
    /\ b_input = <<>>
    /\ b_decoded = [ok |-> FALSE]
    /\ b_n = -1
    /\ b_out = <<>>
    /\ b_pc = "idle"

\* no dictionary under construction
DictIdle ==
    /\ d_map = <<>>
    /\ d_entries = <<>>
    /\ d_log = <<>>
    /\ d_out = <<>>
    /\ d_pc = "idle"

\* the handshake codec at rest
HsIdle ==
    /\ h_info_hash = <<>>
    /\ h_bytes = <<>>
    /\ h_parsed = [ok |-> FALSE]
    /\ h_pc = "idle"

\* no subcommand running
MainIdle ==
    /\ c_cmd = "none"
    /\ c_info = [length |-> 0, piece_length |-> 0, pieces |-> <<>>]
    /\ c_piece_index = 0
    /\ c_pc = "idle"
    /\ c_mark = 0
    /\ c_streams = 0
    /\ c_downloads = <<>>
    /\ c_payloads = <<>>
    /\ c_file = [created |-> FALSE, writes |-> <<>>]
    /\ c_steps = <<>>
    /\ c_exit = "idle"

\* no decoder loop running
LoopIdle ==
    /\ l_input = <<>>
    /\ l_rest = <<>>
    /\ l_steps = 0
    /\ l_pc = "idle"

\* no info-hash being percent-encoded
UrlIdle ==
    /\ u_info_hash = <<>>
    /\ u_urlencode = <<>>
    /\ u_url_encode = <<>>

\* no tracker response being parsed
TrackerIdle ==
    /\ r_body = <<>>
    /\ r_decoded = [ok |-> FALSE]
    /\ r_response = [ok |-> FALSE]
    /\ r_pc = "idle"

\* no metainfo file being read
MetaIdle ==
    /\ t_file = <<>>
    /\ t_slice = <<>>
    /\ t_loaded = [ok |-> FALSE]
    /\ t_hashed = <<>>
    /\ t_pc = "idle"

-----------------------------------------------------------------------------
(* Bounds of the model *)

\* calls the owner makes on one session
MaxCalls == 6
\* the peer sends its next chunk while at most this many bytes are unread
MaxBacklog == 4

-----------------------------------------------------------------------------
(* Bytes and integers *)

Min(a, b) == IF a < b THEN a ELSE b

\* the bytes read in the opposite order (u32::from_le_bytes)
FromLeBytes(b) == b[4] * 16777216 + b[3] * 65536 + b[2] * 256 + b[1]

\* u32::from_be_bytes
FromBeBytes(b) == b[1] * 16777216 + b[2] * 65536 + b[3] * 256 + b[4]

\* u32::to_be_bytes (every u32 of the model is below 2^31)
ToBeBytes(n) ==
    << n \div 16777216, (n \div 65536) % 256, (n \div 256) % 256, n % 256 >>

\* a run of n equal bytes
Fill(n, b) == [i \in 1..n |-> b]

\* s[from..to] with Rust's 0-based half-open bounds
Slice(s, from, to) == SubSeq(s, from + 1, to)

\* std::str::from_utf8 accepts s from position i on
RECURSIVE Utf8From(_, _)
Utf8From(s, i) ==
    LET n == Len(s)
        Cont(j) == j <= n /\ s[j] >= 128 /\ s[j] <= 191
    IN  IF i > n THEN TRUE
        ELSE IF s[i] < 128 THEN Utf8From(s, i + 1)
        ELSE IF s[i] >= 194 /\ s[i] <= 223
             THEN Cont(i + 1) /\ Utf8From(s, i + 2)
        ELSE IF s[i] >= 224 /\ s[i] <= 239
             THEN /\ Cont(i + 1) /\ Cont(i + 2)
                  /\ (s[i] = 224 => s[i + 1] >= 160)
                  /\ (s[i] = 237 => s[i + 1] <= 159)
                  /\ Utf8From(s, i + 3)
        ELSE IF s[i] >= 240 /\ s[i] <= 244
             THEN /\ Cont(i + 1) /\ Cont(i + 2) /\ Cont(i + 3)
                  /\ (s[i] = 240 => s[i + 1] >= 144)
                  /\ (s[i] = 244 => s[i + 1] <= 143)
                  /\ Utf8From(s, i + 4)
        ELSE FALSE

Utf8Valid(s) == Utf8From(s, 1)

-----------------------------------------------------------------------------
(* network.rs: constants *)

CHUNK_SIZE == 16 * 1024

\* "-TR2940-2b3b6b4b5b6b"
PEER_ID == <<45, 84, 82, 50, 57, 52, 48, 45, 50, 98, 51, 98, 54, 98, 52, 98, 53, 98, 54, 98>>

\* "BitTorrent protocol"
PROTOCOL == <<66, 105, 116, 84, 111, 114, 114, 101, 110, 116, 32,
              112, 114, 111, 116, 111, 99, 111, 108>>

-----------------------------------------------------------------------------
(* network.rs: PeerHandshake *)

\* PeerHandshake::new: the fields other than info_hash and peer_id are the defaults
PeerHandshakeNew(info_hash, peer_id) ==
    [length |-> 19, protocol |-> PROTOCOL, reserved |-> Fill(8, 0),
     info_hash |-> info_hash, peer_id |-> peer_id]

\* impl From<PeerHandshake> for Vec<u8>
PeerHandshakeInto(value) ==
    <<value.length % 256>> \o value.protocol \o value.reserved
        \o value.info_hash \o value.peer_id

\* From<Vec<u8>> with the info-hash taken one byte early: value[27..47]
PeerHandshakeFromShifted(value) ==
    IF Len(value) < 68 \/ ~Utf8Valid(Slice(value, 1, 20))
    THEN [ok |-> FALSE]
    ELSE [ok |-> TRUE,
          hs |-> [length |-> value[1],
                  protocol |-> Slice(value, 1, 20),
                  reserved |-> Slice(value, 20, 28),
                  info_hash |-> Slice(value, 27, 47),
                  peer_id |-> Slice(value, 48, 68)]]

\* impl From<Vec<u8>> for PeerHandshake; String::from_utf8(..).unwrap() panics
PeerHandshakeFrom(value) ==
    IF Len(value) < 68 \/ ~Utf8Valid(Slice(value, 1, 20))
    THEN [ok |-> FALSE]
    ELSE [ok |-> TRUE,
          hs |-> [length |-> value[1],
                  protocol |-> Slice(value, 1, 20),
                  reserved |-> Slice(value, 20, 28),
                  info_hash |-> Slice(value, 28, 48),
                  peer_id |-> Slice(value, 48, 68)]]

-----------------------------------------------------------------------------
(* network.rs: PeerMessage and its two conversions *)

Choke == [type |-> "Choke"]
Unchoke == [type |-> "Unchoke"]
Interested == [type |-> "Interested"]
NotInterested == [type |-> "NotInterested"]
Have == [type |-> "Have"]
Bitfield(payload) == [type |-> "Bitfield", payload |-> payload]
Request(index, begin, length) ==
    [type |-> "Request", index |-> index, begin |-> begin, length |-> length]
Piece(index, begin, block) ==
    [type |-> "Piece", index |-> index, begin |-> begin, block |-> block]
Cancel(index, begin, length) ==
    [type |-> "Cancel", index |-> index, begin |-> begin, length |-> length]

\* impl From<Vec<u8>> for PeerMessage: value is the whole frame, prefix included.
\* Every out-of-range index, failed try_into and unknown id is a panic.
PeerMessageFrom(value) ==
    LET n == Len(value)
        Ok(msg) == [ok |-> TRUE, msg |-> msg]
        Panic == [ok |-> FALSE]
        U32(from) == FromBeBytes(Slice(value, from, from + 4))
    IN  IF n < 5 THEN Panic
        ELSE CASE value[5] = 0 -> Ok(Choke)
               [] value[5] = 1 -> Ok(Unchoke)
               [] value[5] = 2 -> Ok(Interested)
               [] value[5] = 3 -> Ok(NotInterested)
               [] value[5] = 4 -> Ok(Have)
               [] value[5] = 5 -> Ok(Bitfield(Slice(value, 5, n)))
               [] value[5] = 6 ->
                    IF n = 17 THEN Ok(Request(U32(5), U32(9), U32(13))) ELSE Panic
               [] value[5] = 7 ->
                    IF n < 13 \/ n - 13 > 16 * 1024 THEN Panic
                    ELSE Ok(Piece(U32(5), U32(9),
                                  [i \in 1..(16 * 1024) |->
                                      IF i <= n - 13 THEN value[13 + i] ELSE 0]))
               [] value[5] = 8 ->
                    IF n >= 17 THEN Ok(Cancel(U32(5), U32(9), U32(13))) ELSE Panic
               [] OTHER -> Panic

\* impl From<&PeerMessage> for Vec<u8>
PeerMessageInto(value) ==
    CASE value.type = "Choke" -> ToBeBytes(1) \o <<0>>
      [] value.type = "Unchoke" -> ToBeBytes(1) \o <<1>>
      [] value.type = "Interested" -> ToBeBytes(1) \o <<2>>
      [] value.type = "NotInterested" -> ToBeBytes(1) \o <<3>>
      [] value.type = "Have" -> ToBeBytes(5) \o <<4>>
      [] value.type = "Bitfield" ->
            ToBeBytes(Len(value.payload) + 1) \o <<5>> \o value.payload
      [] value.type = "Request" ->
            ToBeBytes(value.length) \o <<6>> \o ToBeBytes(value.index)
                \o ToBeBytes(value.begin) \o ToBeBytes(value.length)
      [] value.type = "Piece" ->
            ToBeBytes(9 + Len(value.block)) \o <<7>> \o ToBeBytes(value.index)
                \o ToBeBytes(value.begin) \o value.block
      [] value.type = "Cancel" ->
            ToBeBytes(value.length) \o <<8>> \o ToBeBytes(value.index)
                \o ToBeBytes(value.begin) \o ToBeBytes(value.length)

-----------------------------------------------------------------------------
(* The remote peer and the torrent the session is opened for *)

\* info-hash of the torrent (the value used by test_peer_handshake_from)
INFO_HASH == <<214, 159, 145, 230, 178, 174, 76, 84, 36, 104,
               209, 7, 58, 113, 212, 234, 19, 135, 154, 127>>

\* peer-id of the remote peer
REMOTE_ID == Fill(20, 82)

\* a frame as the wire protocol defines it: length prefix, id, payload
Frame(id, payload) == ToBeBytes(1 + Len(payload)) \o <<id>> \o payload

KeepAlive == ToBeBytes(0)

\* what the peer may put on the wire in one send: its handshake, a
\* keep-alive, choke, unchoke, a bitfield, a port message (id 9), and a
\* handshake for another torrent
PeerChunks ==
    { <<19>> \o PROTOCOL \o Fill(8, 0) \o INFO_HASH \o REMOTE_ID,
      KeepAlive,
      Frame(0, <<>>),
      Frame(1, <<>>),
      Frame(5, <<255>>),
      Frame(9, <<26, 225>>),
      <<19>> \o PROTOCOL \o Fill(8, 0) \o Fill(20, 7) \o REMOTE_ID }

\* the piece frames the peer may answer a request with: the two blocks of
\* piece 0 and a block of piece 1
PeerPieces ==
    { Frame(7, ToBeBytes(0) \o ToBeBytes(0) \o Fill(CHUNK_SIZE, 1)),
      Frame(7, ToBeBytes(0) \o ToBeBytes(CHUNK_SIZE) \o Fill(CHUNK_SIZE, 2)),
      Frame(7, ToBeBytes(1) \o ToBeBytes(0) \o Fill(CHUNK_SIZE, 3)) }

\* a piece frame whose block is shorter than CHUNK_SIZE, as the last block of
\* a piece is: 5 bytes at offset CHUNK_SIZE of piece 0
ShortPieces ==
    { Frame(7, ToBeBytes(0) \o ToBeBytes(CHUNK_SIZE) \o Fill(5, 4)) }

\* piece indices and piece sizes download_piece is called with
PieceIds == {0}
PieceLengths == {5, 20000, 2 * CHUNK_SIZE}

\* messages the caller hands to PeerStream::write
WriteMessages == {Interested}

-----------------------------------------------------------------------------
(* network.rs: PeerStream *)

PeerState == {"Init", "Handshake", "Bitfield", "Interested", "Unchoke"}

\* one entry of a call's socket activity
WroteEv(bytes, ok) == [k |-> "write", bytes |-> bytes, ok |-> ok]
ReadEv(kind, n, prefix, avail) ==
    [k |-> kind, n |-> n, prefix |-> prefix, avail |-> avail]

Idle == [pc |-> "idle", piece_id |-> 0, piece_length |-> 0,
         reqs |-> <<>>, i |-> 0, responses |-> <<>>]

Call(op, args, pre, res, io, ret) ==
    [op |-> op, args |-> args, pre |-> pre, res |-> res, io |-> io, ret |-> ret]

\* write_all on a connection the peer has closed may fail or still succeed
WriteOutcomes == IF eof THEN {TRUE, FALSE} ELSE {TRUE}

\* The three read_exact calls of PeerStream::read and the conversion of the
\* frame, on a stream holding buf.  st is "blocked" while a read_exact waits
\* for bytes, "err" when it meets the end of the stream, "panic" when the
\* subtraction length - 1 underflows or the conversion panics.
ReadFrame(buf, closed) ==
    LET avail == Len(buf)
        length == FromBeBytes(Slice(buf, 0, 4))
        Short(n, prefix) ==
            IF closed THEN [st |-> "err", n |-> n, prefix |-> prefix]
            ELSE [st |-> "blocked", n |-> 0, prefix |-> prefix]
    IN  IF avail < 4 THEN Short(avail, -1)
        ELSE IF avail < 5 THEN Short(4, length)
        ELSE IF length = 0 THEN [st |-> "panic", n |-> 5, prefix |-> length]
        ELSE IF avail < 4 + length THEN Short(avail, length)
        ELSE LET full_msg == Slice(buf, 0, 4 + length)
                 msg == PeerMessageFrom(full_msg)
             IN  IF msg.ok
                 THEN [st |-> "ok", n |-> 4 + length, prefix |-> length,
                       msg |-> msg.msg]
                 ELSE [st |-> "panic", n |-> 4 + length, prefix |-> length]

\* PeerStream::read
StreamRead(st, buf, closed) ==
    IF st = "Init" THEN [st |-> "panic", n |-> 0, prefix |-> -1]
    ELSE ReadFrame(buf, closed)

\* the entry a framed read leaves in the call's socket activity
FrameEv(r) == ReadEv("frame", r.n, r.prefix, Len(inbuf))

Drop(buf, n) == SubSeq(buf, n + 1, Len(buf))

\* the outcome of a call that ends with the framed read r, which must have
\* produced a message of type want to succeed
ReadResult(r, want) ==
    IF r.st = "ok" THEN (IF r.msg.type = want THEN "ok" ELSE "err") ELSE r.st

\* PeerStream::new
SessInit ==
    /\ inbuf = <<>>
    /\ eof = FALSE
    /\ owed = 0
    /\ calls = 0
    /\ state = "Init"
    /\ crashed = FALSE
    /\ dl = Idle
    /\ last = Call("new", <<>>, "Init", "ok", <<>>, <<>>)

CanCall == ~crashed /\ dl.pc = "idle" /\ calls < MaxCalls

\* PeerStream::handshake
Handshake(info_hash) ==
    /\ CanCall
    /\ calls' = calls + 1
    /\ \E wok \in WriteOutcomes :
        LET handshake_bytes == PeerHandshakeInto(PeerHandshakeNew(info_hash, PEER_ID))
            n == Min(68, Len(inbuf))
            buf == SubSeq(inbuf, 1, n) \o Fill(68 - n, 0)
            peer_handshake == PeerHandshakeFrom(buf)
            io == <<WroteEv(handshake_bytes, wok)>>
            rd == ReadEv("read", n, -1, Len(inbuf))
        IN  IF ~wok
            THEN /\ last' = Call("handshake", <<info_hash>>, state, "err", io, <<>>)
                 /\ UNCHANGED <<inbuf, state, crashed>>
            ELSE /\ inbuf # <<>> \/ eof
                 /\ inbuf' = Drop(inbuf, n)
                 /\ crashed' = ~peer_handshake.ok
                 /\ state' = IF peer_handshake.ok THEN "Handshake" ELSE state
                 /\ last' = IF peer_handshake.ok
                            THEN Call("handshake", <<info_hash>>, state, "ok",
                                      io \o <<rd>>, peer_handshake.hs)
                            ELSE Call("handshake", <<info_hash>>, state, "panic",
                                      io \o <<rd>>, <<>>)
    /\ UNCHANGED <<eof, owed, dl, notSess>>

\* the peer owes a piece for every request frame that reached it
Owes(message, wok) == IF wok /\ message.type = "Request" THEN 1 ELSE 0

\* PeerStream::read, called by the owner of the session
Read ==
    /\ CanCall
    /\ calls' = calls + 1
    /\ LET r == StreamRead(state, inbuf, eof)
       IN  /\ r.st # "blocked"
           /\ inbuf' = Drop(inbuf, r.n)
           /\ crashed' = (r.st = "panic")
           /\ last' = Call("read", <<>>, state, r.st,
                           IF state = "Init" THEN <<>> ELSE <<FrameEv(r)>>,
                           IF r.st = "ok" THEN r.msg ELSE <<>>)
    /\ UNCHANGED <<eof, owed, state, dl, notSess>>

\* PeerStream::write, called by the owner of the session
Write(message) ==
    /\ CanCall
    /\ calls' = calls + 1
    /\ \E wok \in WriteOutcomes :
        IF state = "Init"
        THEN /\ last' = Call("write", <<message>>, state, "err", <<>>, <<>>)
             /\ owed' = owed
        ELSE /\ last' = Call("write", <<message>>, state, IF wok THEN "ok" ELSE "err",
                             <<WroteEv(PeerMessageInto(message), wok)>>, <<>>)
             /\ owed' = owed + Owes(message, wok)
    /\ UNCHANGED <<inbuf, eof, state, crashed, dl, notSess>>

\* PeerStream::read_bitfield
ReadBitfield ==
    /\ CanCall
    /\ calls' = calls + 1
    /\ IF state # "Handshake"
       THEN /\ last' = Call("read_bitfield", <<>>, state, "err", <<>>, <<>>)
            /\ UNCHANGED <<inbuf, state, crashed>>
       ELSE LET r == StreamRead(state, inbuf, eof)
                res == ReadResult(r, "Bitfield")
            IN  /\ r.st # "blocked"
                /\ inbuf' = Drop(inbuf, r.n)
                /\ crashed' = (r.st = "panic")
                /\ state' = IF res = "ok" THEN "Bitfield" ELSE state
                /\ last' = Call("read_bitfield", <<>>, state, res, <<FrameEv(r)>>,
                                IF res = "ok" THEN r.msg ELSE <<>>)
    /\ UNCHANGED <<eof, owed, dl, notSess>>

\* PeerStream::write_interested
WriteInterested ==
    /\ CanCall
    /\ calls' = calls + 1
    /\ \E wok \in WriteOutcomes :
        IF state # "Bitfield"
        THEN /\ last' = Call("write_interested", <<>>, state, "err", <<>>, <<>>)
             /\ UNCHANGED state
        ELSE /\ state' = IF wok THEN "Interested" ELSE state
             /\ last' = Call("write_interested", <<>>, state,
                             IF wok THEN "ok" ELSE "err",
                             <<WroteEv(PeerMessageInto(Interested), wok)>>, <<>>)
    /\ UNCHANGED <<inbuf, eof, owed, crashed, dl, notSess>>

\* PeerStream::read_unchoke
ReadUnchoke ==
    /\ CanCall
    /\ calls' = calls + 1
    /\ IF state # "Interested"
       THEN /\ last' = Call("read_unchoke", <<>>, state, "err", <<>>, <<>>)
            /\ UNCHANGED <<inbuf, state, crashed>>
       ELSE LET r == StreamRead(state, inbuf, eof)
                res == ReadResult(r, "Unchoke")
            IN  /\ r.st # "blocked"
                /\ inbuf' = Drop(inbuf, r.n)
                /\ crashed' = (r.st = "panic")
                /\ state' = IF res = "ok" THEN "Unchoke" ELSE state
                /\ last' = Call("read_unchoke", <<>>, state, res, <<FrameEv(r)>>,
                                IF res = "ok" THEN r.msg ELSE <<>>)
    /\ UNCHANGED <<eof, owed, dl, notSess>>

\* download_piece: the requests that cover piece_length
Requests(piece_id, piece_length) ==
    LET n_reqs == piece_length \div CHUNK_SIZE
    IN  [i \in 1..n_reqs |->
            Request(piece_id, (i - 1) * CHUNK_SIZE, CHUNK_SIZE)]

\* download_piece without its state check
DownloadPieceUnchecked(piece_id, piece_length) ==
    /\ CanCall
    /\ calls' = calls + 1
    /\ LET reqs == Requests(piece_id, piece_length)
           args == <<piece_id, piece_length>>
       IN  IF reqs = <<>>
           THEN /\ last' = Call("download_piece", args, state, "ok", <<>>, <<>>)
                /\ dl' = dl
           ELSE /\ last' = Call("download_piece", args, state, "running", <<>>, <<>>)
                /\ dl' = [pc |-> "write", piece_id |-> piece_id,
                          piece_length |-> piece_length, reqs |-> reqs,
                          i |-> 1, responses |-> <<>>]
    /\ UNCHANGED <<inbuf, eof, owed, state, crashed, notSess>>

\* PeerStream::download_piece: the state check and the list of requests
DownloadPiece(piece_id, piece_length) ==
    /\ CanCall
    /\ calls' = calls + 1
    /\ LET reqs == Requests(piece_id, piece_length)
           args == <<piece_id, piece_length>>
       IN  IF state # "Unchoke"
           THEN /\ last' = Call("download_piece", args, state, "err", <<>>, <<>>)
                /\ dl' = dl
           ELSE IF reqs = <<>>
           THEN /\ last' = Call("download_piece", args, state, "ok", <<>>, <<>>)
                /\ dl' = dl
           ELSE /\ last' = Call("download_piece", args, state, "running", <<>>, <<>>)
                /\ dl' = [pc |-> "write", piece_id |-> piece_id,
                          piece_length |-> piece_length, reqs |-> reqs,
                          i |-> 1, responses |-> <<>>]
    /\ UNCHANGED <<inbuf, eof, owed, state, crashed, notSess>>

\* the write of one iteration, pipelined: the next request is written before
\* the response to this one is read
DlWritePipelined ==
    /\ ~crashed
    /\ dl.pc = "write"
    /\ \E wok \in WriteOutcomes :
        LET ev == WroteEv(PeerMessageInto(dl.reqs[dl.i]), wok)
        IN  /\ last' = [last EXCEPT !.io = @ \o <<ev>>,
                                    !.res = IF wok THEN @ ELSE "err"]
            /\ dl' = IF ~wok THEN Idle
                     ELSE IF dl.i < Len(dl.reqs) THEN [dl EXCEPT !.i = @ + 1]
                     ELSE [dl EXCEPT !.pc = "read"]
            /\ owed' = owed + Owes(dl.reqs[dl.i], wok)
    /\ UNCHANGED <<inbuf, eof, calls, state, crashed, notSess>>

\* PeerStream::download_piece: self.write(req)? of one iteration
DlWrite ==
    /\ ~crashed
    /\ dl.pc = "write"
    /\ \E wok \in WriteOutcomes :
        LET ev == WroteEv(PeerMessageInto(dl.reqs[dl.i]), wok)
        IN  /\ last' = [last EXCEPT !.io = @ \o <<ev>>,
                                    !.res = IF wok THEN @ ELSE "err"]
            /\ dl' = IF wok THEN [dl EXCEPT !.pc = "read"] ELSE Idle
            /\ owed' = owed + Owes(dl.reqs[dl.i], wok)
    /\ UNCHANGED <<inbuf, eof, calls, state, crashed, notSess>>

\* the read of one iteration with a retry: after a message that is no piece
\* the request is written again
DlReadRetry ==
    /\ ~crashed
    /\ dl.pc = "read"
    /\ LET r == StreamRead(state, inbuf, eof)
           res == ReadResult(r, "Piece")
           retry == r.st = "ok" /\ res = "err"
           responses == IF res = "ok" THEN Append(dl.responses, r.msg)
                        ELSE dl.responses
           done == ~retry /\ (res # "ok" \/ dl.i = Len(dl.reqs))
       IN  /\ r.st # "blocked"
           /\ inbuf' = Drop(inbuf, r.n)
           /\ crashed' = (r.st = "panic")
           /\ last' = [last EXCEPT !.io = @ \o <<FrameEv(r)>>,
                                   !.res = IF done THEN res ELSE @,
                                   !.ret = IF done /\ res = "ok" THEN responses ELSE @]
           /\ dl' = IF done THEN Idle
                    ELSE IF retry THEN [dl EXCEPT !.pc = "write"]
                    ELSE [dl EXCEPT !.pc = "write", !.i = @ + 1,
                                    !.responses = responses]
    /\ UNCHANGED <<eof, owed, calls, state, notSess>>

\* PeerStream::download_piece: self.read()? of one iteration and the match on it
DlRead ==
    /\ ~crashed
    /\ dl.pc = "read"
    /\ LET r == StreamRead(state, inbuf, eof)
           res == ReadResult(r, "Piece")
           responses == IF res = "ok" THEN Append(dl.responses, r.msg)
                        ELSE dl.responses
           done == res # "ok" \/ dl.i = Len(dl.reqs)
       IN  /\ r.st # "blocked"
           /\ inbuf' = Drop(inbuf, r.n)
           /\ crashed' = (r.st = "panic")
           /\ last' = [last EXCEPT !.io = @ \o <<FrameEv(r)>>,
                                   !.res = IF done THEN res ELSE @,
                                   !.ret = IF done /\ res = "ok" THEN responses ELSE @]
           /\ dl' = IF done THEN Idle
                    ELSE [dl EXCEPT !.pc = "write", !.i = @ + 1,
                                    !.responses = responses]
    /\ UNCHANGED <<eof, owed, calls, state, notSess>>

\* the remote peer puts a chunk on the wire
PeerSend(chunk) ==
    /\ ~crashed
    /\ ~eof
    /\ Len(inbuf) <= MaxBacklog
    /\ inbuf' = inbuf \o chunk
    /\ UNCHANGED <<eof, owed, calls, state, crashed, dl, last, notSess>>

\* the remote peer answers a request with a piece frame
PeerSendPiece(chunk) ==
    /\ ~crashed
    /\ ~eof
    /\ owed > 0
    /\ Len(inbuf) <= MaxBacklog
    /\ inbuf' = inbuf \o chunk
    /\ owed' = owed - 1
    /\ UNCHANGED <<eof, calls, state, crashed, dl, last, notSess>>

\* the remote peer closes the connection
PeerClose ==
    /\ ~crashed
    /\ ~eof
    /\ eof' = TRUE
    /\ UNCHANGED <<inbuf, owed, calls, state, crashed, dl, last, notSess>>

Init == AnyBuild /\ SessInit /\ MsgIdle /\ BenIdle /\ DictIdle /\ MetaIdle /\ HsIdle
    /\ MainIdle /\ TrackerIdle /\ UrlIdle /\ LoopIdle

Next ==
    \/ \E info_hash \in {INFO_HASH} : Handshake(info_hash)
    \/ Read
    \/ \E message \in WriteMessages : Write(message)
    \/ ReadBitfield
    \/ WriteInterested
    \/ ReadUnchoke
    \/ \E piece_id \in PieceIds, piece_length \in PieceLengths :
          DownloadPiece(piece_id, piece_length)
    \/ DlWrite
    \/ DlRead
    \/ \E chunk \in PeerChunks : PeerSend(chunk)
    \/ \E chunk \in PeerPieces : PeerSendPiece(chunk)
    \/ \E chunk \in ShortPieces : PeerSendPiece(chunk)
    \/ PeerClose

Spec == Init /\ [][Next]_vars

-----------------------------------------------------------------------------
(* main.rs: what the download_piece subcommand does with the returned list *)

\* the fold that concatenates the blocks of the returned piece messages
RECURSIVE DownloadedPayload(_)
DownloadedPayload(downloads) ==
    IF downloads = <<>> THEN <<>>
    ELSE Head(downloads).block \o DownloadedPayload(Tail(downloads))

-----------------------------------------------------------------------------
(* Peer session: operations and their required states *)

SessionOps ==
    {"handshake", "read_bitfield", "write_interested", "read_unchoke", "download_piece"}

\* the state an operation must be invoked in
RequiredState(op) ==
    CASE op = "handshake" -> "Init"
      [] op = "read_bitfield" -> "Handshake"
      [] op = "write_interested" -> "Bitfield"
      [] op = "read_unchoke" -> "Interested"
      [] op = "download_piece" -> "Unchoke"

\* the state a successful operation leaves the session in
TargetState(op) ==
    CASE op = "handshake" -> "Handshake"
      [] op = "read_bitfield" -> "Bitfield"
      [] op = "write_interested" -> "Interested"
      [] op = "read_unchoke" -> "Unchoke"
      [] op = "download_piece" -> "Unchoke"

\* C1: an operation invoked in a state other than its required state returns
\* an error, reads and writes nothing on the socket and leaves the state as
\* it was.  (handshake has no state check: it fails.)
C1_OutOfStateRejected ==
    (last.op \in SessionOps /\ last.pre # RequiredState(last.op))
        => (last.res = "err" /\ last.io = <<>> /\ state = last.pre)

\* C2: the session starts in Init; every successful operation is one edge of
\* Init -> Handshake -> Bitfield -> Interested -> Unchoke, download_piece
\* being the loop on Unchoke; a download_piece invoked in Unchoke leaves the
\* state Unchoke however it ends.
C2_StateChain ==
    /\ last.op = "new" => state = "Init"
    /\ (last.op \in SessionOps /\ last.res = "ok")
          => (last.pre = RequiredState(last.op) /\ state = TargetState(last.op))
    /\ (last.op = "download_piece" /\ last.pre = "Unchoke") => state = "Unchoke"

\* the requests, as (index, begin, length), a call has put on the wire
RequestsWritten(io) ==
    LET w == SelectSeq(io, LAMBDA e : e.k = "write" /\ e.ok /\ e.bytes[5] = 6)
    IN  [j \in 1..Len(w) |->
            <<FromBeBytes(Slice(w[j].bytes, 5, 9)),
              FromBeBytes(Slice(w[j].bytes, 9, 13)),
              FromBeBytes(Slice(w[j].bytes, 13, 17))>>]

\* the requests that cover [0, S) of piece p in blocks of 16384 bytes
BlockCount(S) == (S + 16383) \div 16384
CoveringRequests(p, S) ==
    [j \in 1..BlockCount(S) |->
        <<p, (j - 1) * 16384, Min(16384, S - (j - 1) * 16384)>>]

\* C3: a download_piece(p, S) that returns successfully has emitted exactly
\* ceil(S / 16384) requests, the j-th for begin = j*16384 and
\* length = min(16384, S - j*16384).
C3_RequestsCoverPiece ==
    (last.op = "download_piece" /\ last.res = "ok")
        => RequestsWritten(last.io) = CoveringRequests(last.args[1], last.args[2])

\* C4: when download_piece(p, S) returns successfully, the buffer reassembled
\* from the returned piece messages has length S.
C4_PayloadLength ==
    (last.op = "download_piece" /\ last.res = "ok")
        => Len(DownloadedPayload(last.ret)) = last.args[2]

\* C7: a framed read that finds its whole frame on the stream consumes
\* exactly 4 + L bytes, L being the value of the 4-byte prefix; for L = 0
\* that is the prefix alone.
C7_ReadConsumesFrame ==
    \A j \in 1..Len(last.io) :
        LET e == last.io[j]
        IN  (e.k = "frame" /\ e.prefix >= 0 /\ e.avail >= 4 + e.prefix)
                => e.n = 4 + e.prefix

-----------------------------------------------------------------------------
(* The peer-message codec on its own: a message is converted to bytes and   *)
(* the bytes are converted back.                                           *)

\* longest bitfield payload
MaxPayload == 2

PayloadBytes == {0, 5, 255}

RECURSIVE SeqsUpTo(_, _)
\* all sequences over S of length at most n
SeqsUpTo(S, n) ==
    IF n = 0 THEN {<<>>}
    ELSE LET shorter == SeqsUpTo(S, n - 1)
         IN  shorter \cup {Append(q, x) : q \in shorter, x \in S}

\* blocks of the type [u8; 16 * 1024]
Blocks == {Fill(16 * 1024, 0), Fill(16 * 1024, 7),
           [i \in 1..(16 * 1024) |-> IF i <= 3 THEN 9 ELSE 0]}

U32s == {0, 1, 13, CHUNK_SIZE}

\* values of the enum PeerMessage
Messages ==
    {Choke, Unchoke, Interested, NotInterested, Have}
    \cup {Bitfield(payload) : payload \in SeqsUpTo(PayloadBytes, MaxPayload)}
    \cup {Request(i, b, l) : i \in U32s, b \in U32s, l \in U32s}
    \cup {Piece(i, b, block) : i \in {0, 1}, b \in {0, CHUNK_SIZE}, block \in Blocks}
    \cup {Cancel(i, b, l) : i \in U32s, b \in U32s, l \in U32s}

MsgInit ==
    /\ m_value \in Messages
    /\ m_bytes = <<>>
    /\ m_parsed = [ok |-> FALSE]
    /\ m_pc = "new"

\* Vec::<u8>::from(&message)
MsgEncode ==
    /\ m_pc = "new"
    /\ m_bytes' = PeerMessageInto(m_value)
    /\ m_pc' = "encoded"
    /\ UNCHANGED <<m_value, m_parsed, notMsg>>

\* PeerMessage::from(bytes)
MsgDecode ==
    /\ m_pc = "encoded"
    /\ m_parsed' = PeerMessageFrom(m_bytes)
    /\ m_pc' = "decoded"
    /\ UNCHANGED <<m_value, m_bytes, notMsg>>

InitMessage == AnyBuild /\ MsgInit /\ SessInit /\ BenIdle /\ DictIdle /\ MetaIdle /\ HsIdle
    /\ MainIdle /\ TrackerIdle /\ UrlIdle /\ LoopIdle

NextMessage == MsgEncode \/ MsgDecode

SpecMessage == InitMessage /\ [][NextMessage]_vars

\* C5: in every encoded frame the 4-byte big-endian prefix is the number of
\* bytes that follow it (the id byte and the payload).
C5_PrefixIsLength ==
    m_pc \in {"encoded", "decoded"}
        => FromBeBytes(Slice(m_bytes, 0, 4)) = Len(m_bytes) - 4

\* C6: converting a message to its frame and the frame back to a message
\* yields the message.
C6_RoundTrip ==
    m_pc = "decoded" => (m_parsed.ok /\ m_parsed.msg = m_value)

\* a request whose length field differs from its frame length has gone
\* through both conversions
C6_Witness ==
    /\ m_pc = "decoded"
    /\ m_value = Request(1, CHUNK_SIZE, CHUNK_SIZE)
    /\ m_parsed.ok

-----------------------------------------------------------------------------
(* Bencode (decoder.rs).  A BencodedValue is a record tagged by t; a        *)
(* BTreeMap<BencodedString, BencodedValue> is the sequence of its           *)
(* <<key, value>> entries in ascending key order.                           *)

\* width of the model's i64: the arithmetic of the decoder is carried out in
\* IntBits-bit two's complement instead of 64-bit
IntBits == 8

I64Min == -(2 ^ (IntBits - 1))
I64Max == 2 ^ (IntBits - 1) - 1

Digits == <<"0", "1", "2", "3", "4", "5", "6", "7", "8", "9">>
Letters ==
    <<"a", "b", "c", "d", "e", "f", "g", "h", "i", "j", "k", "l", "m",
      "n", "o", "p", "q", "r", "s", "t", "u", "v", "w", "x", "y", "z">>

\* the byte of a character: b'c'
Ascii(c) ==
    CASE c = " " -> 32
      [] c = "+" -> 43
      [] c = "-" -> 45
      [] c = ":" -> 58
      [] \E i \in 1..10 : Digits[i] = c -> 47 + CHOOSE i \in 1..10 : Digits[i] = c
      [] \E i \in 1..26 : Letters[i] = c -> 96 + CHOOSE i \in 1..26 : Letters[i] = c

\* the bytes of a literal written one character at a time: b"..."
Bytes(cs) == [i \in 1..Len(cs) |-> Ascii(cs[i])]

IsDigit(c) == c >= 48 /\ c <= 57

RECURSIVE Decimal(_)
\* to_string() of a non-negative integer
Decimal(n) ==
    IF n < 10 THEN <<48 + n>> ELSE Append(Decimal(n \div 10), 48 + (n % 10))

\* i64::to_string / usize::to_string
to_string(n) == IF n < 0 THEN <<45>> \o Decimal(-n) ELSE Decimal(n)

\* the enum BencodedValue
BencodedValueString(s) == [t |-> "String", s |-> s]
BencodedValueInteger(i) == [t |-> "Integer", i |-> i]
BencodedValueList(l) == [t |-> "List", l |-> l]
BencodedValueDict(d) == [t |-> "Dict", d |-> d]

\* the derived Ord of BencodedString: lexicographic on the bytes
BytesLess(a, b) ==
    \E i \in 1..(Len(b)) :
        /\ \A j \in 1..(i - 1) : j <= Len(a) /\ a[j] = b[j]
        /\ (i > Len(a) \/ a[i] < b[i])

\* Vec::push in place of BTreeMap::insert: the entry goes to the end,
\* whatever its key
VecPush(map, key, value) == Append(map, <<key, value>>)

\* BTreeMap::insert: the value of an equal key is replaced, a new key goes to
\* its place in the ascending order
BTreeInsert(map, key, value) ==
    IF \E i \in 1..Len(map) : map[i][1] = key
    THEN [i \in 1..Len(map) |-> IF map[i][1] = key THEN <<key, value>> ELSE map[i]]
    ELSE LET below == Cardinality({i \in 1..Len(map) : BytesLess(map[i][1], key)})
         IN  SubSeq(map, 1, below) \o <<<<key, value>>>>
                 \o SubSeq(map, below + 1, Len(map))

RECURSIVE bencode(_), BencodeItems(_), BencodeEntries(_)
\* BencodedValue::bencode
bencode(v) ==
    CASE v.t = "String" -> to_string(Len(v.s)) \o <<58>> \o v.s
      [] v.t = "Integer" -> <<105>> \o to_string(v.i) \o <<101>>
      [] v.t = "List" -> <<108>> \o BencodeItems(v.l) \o <<101>>
      [] v.t = "Dict" -> <<100>> \o BencodeEntries(v.d) \o <<101>>

\* for item in l { out.extend(item.bencode()) }
BencodeItems(l) ==
    IF l = <<>> THEN <<>> ELSE bencode(Head(l)) \o BencodeItems(Tail(l))

\* for (key, value) in d { key as a string, then the value }
BencodeEntries(d) ==
    IF d = <<>> THEN <<>>
    ELSE bencode(BencodedValueString(Head(d)[1])) \o bencode(Head(d)[2])
             \o BencodeEntries(Tail(d))

\* the decoder panicked
Panic == [ok |-> FALSE]
\* the decoder returned (ending_index, value)
Decoded(ending_index, value) == [ok |-> TRUE, n |-> ending_index, v |-> value]

\* two's complement wrap-around of the model's i64
Wrap(x) == ((x - I64Min) % (2 ^ IntBits)) + I64Min

\* the result of i64 arithmetic whose exact value is x: a panic where the
\* build checks for overflow, the wrapped value where it does not
I64(x) ==
    IF x >= I64Min /\ x <= I64Max THEN [ok |-> TRUE, n |-> x]
    ELSE IF overflow_checks THEN [ok |-> FALSE]
    ELSE [ok |-> TRUE, n |-> Wrap(x)]

\* iter().position(|&c| c == byte): 0-based, -1 for None
Position(s, byte) ==
    IF \E i \in 1..Len(s) : s[i] = byte
    THEN (CHOOSE i \in 1..Len(s) :
              s[i] = byte /\ \A j \in 1..(i - 1) : s[j] # byte) - 1
    ELSE -1

RECURSIVE DigitsValue(_)
\* the number a run of ASCII digits denotes
DigitsValue(s) ==
    IF s = <<>> THEN 0
    ELSE DigitsValue(SubSeq(s, 1, Len(s) - 1)) * 10 + (s[Len(s)] - 48)

\* str::parse::<usize>: an optional '+', then one or more digits and nothing
\* else (the lengths of the model stay far below usize::MAX)
ParseUsize(s) ==
    LET digits == IF Len(s) > 0 /\ s[1] = 43 THEN Tail(s) ELSE s
    IN  IF Len(digits) = 0 \/ \E i \in 1..Len(digits) : ~IsDigit(digits[i])
        THEN [ok |-> FALSE]
        ELSE [ok |-> TRUE, n |-> DigitsValue(digits)]

\* decode_bencoded_string going through text: every byte above 127 of the
\* string comes back as '?'
decode_bencoded_string_text(encoded_value) ==
    LET colon_index == Position(encoded_value, 58)
    IN  IF colon_index < 0 THEN Panic
        ELSE LET length == ParseUsize(Slice(encoded_value, 0, colon_index))
             IN  IF ~length.ok THEN Panic
                 ELSE LET ending_index == colon_index + 1 + length.n
                          text_part == Slice(encoded_value, colon_index + 1,
                                             ending_index)
                      IN  IF ending_index > Len(encoded_value) THEN Panic
                          ELSE Decoded(ending_index,
                                   BencodedValueString(
                                       [i \in 1..Len(text_part) |->
                                           IF text_part[i] > 127 THEN 63
                                           ELSE text_part[i]]))

\* decode_bencoded_string
decode_bencoded_string(encoded_value) ==
    LET colon_index == Position(encoded_value, 58)
    IN  IF colon_index < 0 THEN Panic
        ELSE LET length == ParseUsize(Slice(encoded_value, 0, colon_index))
             IN  IF ~length.ok THEN Panic
                 ELSE LET ending_index == colon_index + 1 + length.n
                      IN  IF ending_index > Len(encoded_value) THEN Panic
                          ELSE Decoded(ending_index,
                                   BencodedValueString(
                                       Slice(encoded_value, colon_index + 1,
                                             ending_index)))

RECURSIVE IntegerLoop(_, _, _, _, _)
\* the loop of decode_bencoded_integer, at the (1-based) byte pos
IntegerLoop(encoded_value, pos, number, mult, ending_index) ==
    LET result == I64(number * mult)
        return == IF result.ok
                  THEN Decoded(ending_index, BencodedValueInteger(result.n))
                  ELSE Panic
    IN  IF pos > Len(encoded_value) THEN return
        ELSE LET c == encoded_value[pos]
             IN  CASE c = 101 -> return
                   [] c = 45 ->
                        IntegerLoop(encoded_value, pos + 1, number, -1,
                                    ending_index + 1)
                   [] IsDigit(c) ->
                        LET next == I64(number * 10 + (c - 48))
                        IN  IF next.ok
                            THEN IntegerLoop(encoded_value, pos + 1, next.n,
                                             mult, ending_index + 1)
                            ELSE Panic
                   [] OTHER -> Panic

\* decode_bencoded_integer with ending_index starting at 0
decode_bencoded_integer_uncounted(encoded_value) ==
    IF Len(encoded_value) = 0 THEN Panic
    ELSE IntegerLoop(encoded_value, 2, 0, 1, 0)

\* decode_bencoded_integer
decode_bencoded_integer(encoded_value) ==
    IF Len(encoded_value) = 0 THEN Panic
    ELSE IntegerLoop(encoded_value, 2, 0, 1, 2)

RECURSIVE decode_bencoded_value(_), ListLoop(_, _, _), DictLoop(_, _, _)

\* the loop of decode_bencoded_list over the rest of the input
ListLoop(encoded_value, list, ending_index) ==
    IF Len(encoded_value) = 0 THEN Panic
    ELSE IF encoded_value[1] = 101
    THEN Decoded(ending_index + 1, BencodedValueList(list))
    ELSE LET child == decode_bencoded_value(encoded_value)
         IN  IF ~child.ok THEN Panic
             ELSE IF child.n > Len(encoded_value) THEN Panic
             ELSE ListLoop(Slice(encoded_value, child.n, Len(encoded_value)),
                           Append(list, child.v), ending_index + child.n)

\* decode_bencoded_list
decode_bencoded_list(encoded_value) ==
    IF Len(encoded_value) = 0 THEN Panic
    ELSE ListLoop(Tail(encoded_value), <<>>, 1)

\* the loop of decode_bencoded_dict over the rest of the input
DictLoop(encoded_value, dict, ending_index) ==
    IF Len(encoded_value) = 0 THEN Panic
    ELSE IF encoded_value[1] = 101
    THEN Decoded(ending_index + 1, BencodedValueDict(dict))
    ELSE LET key == decode_bencoded_string(encoded_value)
         IN  IF ~key.ok THEN Panic
             ELSE LET rest == Slice(encoded_value, key.n, Len(encoded_value))
                      value == decode_bencoded_value(rest)
                  IN  IF ~value.ok THEN Panic
                      ELSE IF value.n > Len(rest) THEN Panic
                      ELSE DictLoop(Slice(rest, value.n, Len(rest)),
                                    BTreeInsert(dict, key.v.s, value.v),
                                    ending_index + key.n + value.n)

\* decode_bencoded_dict
decode_bencoded_dict(encoded_value) ==
    IF Len(encoded_value) = 0 THEN Panic
    ELSE DictLoop(Tail(encoded_value), <<>>, 1)

\* decode_bencoded_value
decode_bencoded_value(encoded_value) ==
    IF Len(encoded_value) = 0 THEN Panic
    ELSE LET first_char == encoded_value[1]
         IN  CASE IsDigit(first_char) -> decode_bencoded_string(encoded_value)
               [] first_char = 105 -> decode_bencoded_integer(encoded_value)
               [] first_char = 108 -> decode_bencoded_list(encoded_value)
               [] first_char = 100 -> decode_bencoded_dict(encoded_value)
               [] OTHER -> Panic

\* BencodedValue::from(&[u8]): the value, the consumed count is dropped
BencodedValueFrom(value) ==
    LET out == decode_bencoded_value(value)
    IN  IF out.ok THEN [ok |-> TRUE, v |-> out.v] ELSE Panic

-----------------------------------------------------------------------------
(* The bencode codec on its own: bytes are decoded and the value is         *)
(* encoded again.                                                           *)

\* longest input drawn from the alphabet
MaxLen == 4

\* i e l d 1 0 - : a and a byte that is not ASCII
Alphabet == {105, 101, 108, 100, 49, 48, 45, 58, 97, 255}

\* the examples of the decoder's comments and tests, and of the encoder's
Examples ==
    { Bytes(<<"5", ":", "h", "e", "l", "l", "o">>),
      Bytes(<<"i", "-", "4", "2", "e">>),
      Bytes(<<"i", "5", "2", "e">>),
      Bytes(<<"l", "4", ":", "s", "p", "a", "m", "i", "3", "e", "e">>),
      Bytes(<<"l", "5", ":", "h", "e", "l", "l", "o", "i", "3", "e", "e">>),
      Bytes(<<"l", "4", ":", "s", "p", "a", "m", "l", "1", ":", "a",
              "1", ":", "b", "e", "e">>),
      Bytes(<<"d", "3", ":", "c", "o", "w", "3", ":", "m", "o", "o",
              "4", ":", "s", "p", "a", "m", "4", ":", "e", "g", "g", "s", "e">>),
      Bytes(<<"d", "4", ":", "s", "p", "a", "m", "l", "1", ":", "a",
              "1", ":", "b", "e", "e">>),
      Bytes(<<"d", "4", ":", "f", "o", "o", "d", "d", "1", ":", "a",
              "3", ":", "b", "a", "r", "e", "5", ":", "d", "r", "i", "n", "k",
              "d", "1", ":", "b", "3", ":", "b", "a", "z", "e", "e">>),
      Bytes(<<"d", "5", ":", "d", "r", "i", "n", "k", "d", "1", ":", "b",
              "3", ":", "b", "a", "z", "e", "4", ":", "f", "o", "o", "d",
              "d", "1", ":", "a", "3", ":", "b", "a", "r", "e", "e">>),
      Bytes(<<"1", "0", ":">>) \o <<0, 58, 101, 105, 127, 128, 195, 40, 255, 48>>,
      Bytes(<<"+", "1", ":", "a">>),
      Bytes(<<"0", "1", ":", "a">>) }

\* integers at and just beyond the ends of the i64 range
EdgeIntegers ==
    { <<105>> \o to_string(n) \o <<101>> :
          n \in {I64Max - 1, I64Max, I64Max + 1, I64Min + 1, I64Min, I64Min - 1} }

\* encoded keys and encoded values that lists and dictionaries are put
\* together from
KeyParts ==
    { Bytes(<<"0", ":">>), Bytes(<<"1", ":", "a">>), Bytes(<<"1", ":", "b">>),
      Bytes(<<"2", ":", "a", "b">>) }
ValueParts ==
    { Bytes(<<"i", "1", "e">>), Bytes(<<"1", ":", "x">>), Bytes(<<"l", "e">>),
      Bytes(<<"d", "1", ":", "b", "i", "2", "e", "1", ":", "a", "l", "e", "e">>),
      Bytes(<<"d", "1", ":", "a", "l", "e", "1", ":", "b", "i", "2", "e", "e">>),
      <<105>> \o to_string(I64Min) \o <<101>> }

\* two-entry dictionaries (ordered, misordered and with a repeated key) and
\* two-element lists
Composites ==
    { <<100>> \o k1 \o v1 \o k2 \o v2 \o <<101>> :
          k1 \in KeyParts, v1 \in ValueParts, k2 \in KeyParts, v2 \in ValueParts }
    \cup { <<108>> \o v1 \o v2 \o <<101>> : v1 \in ValueParts, v2 \in ValueParts }

\* bytes a byte string is made of: NUL, ':', 'e', a UTF-8 continuation byte,
\* a UTF-8 lead byte and 0xFF
StringBytes == {0, 58, 101, 128, 195, 255}

\* byte strings of up to two such bytes, alone, as the element of a list and
\* as the value of a dictionary entry
StringInputs ==
    LET strings == { to_string(Len(q)) \o <<58>> \o q : q \in SeqsUpTo(StringBytes, 2) }
    IN  strings
        \cup { <<108>> \o e \o <<101>> : e \in strings }
        \cup { <<100>> \o Bytes(<<"1", ":", "a">>) \o e \o <<101>> : e \in strings }

\* the examples followed by bytes that belong to no value of theirs
Suffixed ==
    { B \o X : B \in Examples,
                X \in {<<101>>, Bytes(<<"i", "1", "e">>), Bytes(<<"1", ":", "a">>), <<255, 58>>} }

Inputs ==
    SeqsUpTo(Alphabet, MaxLen) \cup Examples \cup EdgeIntegers \cup Composites
        \cup StringInputs \cup Suffixed

BenInit ==
    /\ b_input \in Inputs
    /\ b_decoded = [ok |-> FALSE]
    /\ b_n = -1
    /\ b_out = <<>>
    /\ b_pc = "new"

\* BencodedValue::from(bytes)
BenDecode ==
    /\ b_pc = "new"
    /\ b_decoded' = BencodedValueFrom(b_input)
    /\ b_n' = IF decode_bencoded_value(b_input).ok
              THEN decode_bencoded_value(b_input).n ELSE -1
    /\ b_pc' = IF BencodedValueFrom(b_input).ok THEN "decoded" ELSE "panicked"
    /\ UNCHANGED <<b_input, b_out, notBen>>

\* value.bencode()
BenEncode ==
    /\ b_pc = "decoded"
    /\ b_out' = bencode(b_decoded.v)
    /\ b_pc' = "encoded"
    /\ UNCHANGED <<b_input, b_decoded, b_n, notBen>>

InitBencode == AnyBuild /\ BenInit /\ SessInit /\ MsgIdle /\ DictIdle /\ MetaIdle /\ HsIdle
    /\ MainIdle /\ TrackerIdle /\ UrlIdle /\ LoopIdle

NextBencode == BenDecode \/ BenEncode

SpecBencode == InitBencode /\ [][NextBencode]_vars

(* Canonical bencoding, from the grammar: <len>:<bytes> with a length       *)
(* without leading zeros; i<decimal>e without leading zeros and without     *)
(* -0, in the i64 range; l<values>e; d<key value ...>e with string keys in  *)
(* strictly ascending order.  Positions are 1-based; 0 stands for "no".     *)

\* the first position at or after p that holds no digit
DigitRunEnd(B, p) ==
    CHOOSE q \in p..(Len(B) + 1) :
        /\ \A j \in p..(q - 1) : IsDigit(B[j])
        /\ (q = Len(B) + 1 \/ ~IsDigit(B[q]))

\* a canonical string at p: where its bytes start and where it ends
CanonString(B, p) ==
    LET q == DigitRunEnd(B, p)
    IN  IF q = p \/ q > Len(B) \/ q - p > 9 THEN [end |-> 0]
        ELSE IF B[q] # 58 \/ (B[p] = 48 /\ q > p + 1) THEN [end |-> 0]
        ELSE LET n == DigitsValue(SubSeq(B, p, q - 1))
             IN  IF q + n > Len(B) THEN [end |-> 0]
                 ELSE [end |-> q + n + 1, key |-> SubSeq(B, q + 1, q + n)]

\* a canonical integer at p (B[p] is 'i'): the position after its 'e'
CanonInteger(B, p) ==
    LET negative == p + 1 <= Len(B) /\ B[p + 1] = 45
        from == IF negative THEN p + 2 ELSE p + 1
        q == IF from > Len(B) THEN from ELSE DigitRunEnd(B, from)
    IN  IF q = from \/ q > Len(B) \/ q - from > 9 THEN 0
        ELSE IF B[q] # 101 \/ (B[from] = 48 /\ (q > from + 1 \/ negative)) THEN 0
        ELSE LET n == DigitsValue(SubSeq(B, from, q - 1))
             IN  IF (negative /\ -n < I64Min) \/ (~negative /\ n > I64Max)
                 THEN 0 ELSE q + 1

RECURSIVE CanonValue(_, _), CanonItems(_, _), CanonEntries(_, _, _)

\* a canonical value at p: the position after it
CanonValue(B, p) ==
    IF p > Len(B) THEN 0
    ELSE CASE IsDigit(B[p]) -> CanonString(B, p).end
           [] B[p] = 105 -> CanonInteger(B, p)
           [] B[p] = 108 -> CanonItems(B, p + 1)
           [] B[p] = 100 -> CanonEntries(B, p + 1, <<>>)
           [] OTHER -> 0

\* canonical values up to the closing 'e'
CanonItems(B, p) ==
    IF p > Len(B) THEN 0
    ELSE IF B[p] = 101 THEN p + 1
    ELSE LET q == CanonValue(B, p)
         IN  IF q = 0 THEN 0 ELSE CanonItems(B, q)

\* canonical entries up to the closing 'e', each key above the one before
\* (prev holds the key before, if any)
CanonEntries(B, p, prev) ==
    IF p > Len(B) THEN 0
    ELSE IF B[p] = 101 THEN p + 1
    ELSE IF ~IsDigit(B[p]) THEN 0
    ELSE LET k == CanonString(B, p)
         IN  IF k.end = 0 THEN 0
             ELSE IF prev # <<>> /\ ~BytesLess(prev[1], k.key) THEN 0
             ELSE LET q == CanonValue(B, k.end)
                  IN  IF q = 0 THEN 0 ELSE CanonEntries(B, q, <<k.key>>)

\* B is exactly one canonical bencoded value
Canonical(B) == CanonValue(B, 1) = Len(B) + 1

\* C8: for every canonical bencoded byte sequence, decoding it and encoding
\* the decoded value yields the same bytes.
C8_CanonicalRoundTrip ==
    (Canonical(b_input) /\ b_pc \in {"panicked", "encoded"})
        => (b_pc = "encoded" /\ b_out = b_input)

\* B is a two-entry dictionary, well-formed but for its keys, of which the
\* second is not above the first
MisorderedDict(B) ==
    \E k1 \in KeyParts, k2 \in KeyParts, v1 \in ValueParts, v2 \in ValueParts :
        /\ B = <<100>> \o k1 \o v1 \o k2 \o v2 \o <<101>>
        /\ ~BytesLess(CanonString(k1, 1).key, CanonString(k2, 1).key)

\* C21: a dictionary whose keys are not strictly ascending (a repeated key
\* or a key below the one before it) is a decode error: no value is returned.
C21_MisorderedKeysRejected ==
    (b_pc # "new" /\ MisorderedDict(b_input)) => ~b_decoded.ok

\* B is 'i', a body without 'e', and 'e'
IntegerInput(B) ==
    /\ Len(B) >= 2
    /\ B[1] = 105
    /\ B[Len(B)] = 101
    /\ \A j \in 2..(Len(B) - 1) : B[j] # 101
IntegerBody(B) == SubSeq(B, 2, Len(B) - 1)

\* a body of the grammar: an optional '-', then digits; no leading zero
\* unless the body is "0"; not "-0"
ValidBody(body) ==
    LET negative == Len(body) >= 1 /\ body[1] = 45
        digits == IF negative THEN Tail(body) ELSE body
    IN  /\ Len(digits) >= 1
        /\ \A j \in 1..Len(digits) : IsDigit(digits[j])
        /\ ~(digits[1] = 48 /\ (Len(digits) > 1 \/ negative))

\* the number a valid body denotes
BodyValue(body) ==
    IF body[1] = 45 THEN -DigitsValue(Tail(body)) ELSE DigitsValue(body)

\* C22: integer decoding rejects i-0e, leading zeros (other than i0e), bodies
\* without digits and a '-' that is not directly after 'i'; for a valid body
\* (within the i64 range) it returns the signed decimal value.
C22_IntegerGrammar ==
    (b_pc # "new" /\ IntegerInput(b_input))
        => LET body == IntegerBody(b_input)
           IN  IF ~ValidBody(body) THEN ~b_decoded.ok
               ELSE (BodyValue(body) >= I64Min /\ BodyValue(body) <= I64Max)
                       => /\ b_decoded.ok
                          /\ b_decoded.v = BencodedValueInteger(BodyValue(body))

\* C23: an integer whose decimal value does not fit the signed width is a
\* decode error: no wrapped or truncated value is returned.
C23_OverflowRejected ==
    (/\ b_pc # "new"
     /\ IntegerInput(b_input)
     /\ ValidBody(IntegerBody(b_input))
     /\ (\/ BodyValue(IntegerBody(b_input)) > I64Max
         \/ BodyValue(IntegerBody(b_input)) < I64Min))
        => ~b_decoded.ok

\* C24: decoding is total: a well-formed input yields a value and a
\* malformed one an error result; the decoder never aborts the program.
C24_DecodeTotal ==
    b_pc # "new"
        => /\ b_pc # "panicked"
           /\ Canonical(b_input) => b_decoded.ok

\* the length of the well-formed value b_input starts with, 0 if there is none
LeadingValue(B) == IF CanonValue(B, 1) = 0 THEN 0 ELSE CanonValue(B, 1) - 1

\* C25: for a well-formed value with encoding B and any suffix X, decoding
\* B followed by X returns the value of B and a consumed count of |B|.
C25_ConsumedCount ==
    (b_pc # "new" /\ LeadingValue(b_input) > 0)
        => /\ b_decoded.ok
           /\ b_n = LeadingValue(b_input)
           /\ bencode(b_decoded.v) = SubSeq(b_input, 1, LeadingValue(b_input))

\* C26: a byte string <n>:<bytes> decodes to exactly the n bytes after the
\* colon, whatever their values, also as the element of a list and as the
\* value of a dictionary entry.
C26_StringBytesVerbatim ==
    (b_pc # "new" /\ Len(b_input) >= 2)
        => LET B == b_input
               alone == CanonString(B, 1)
               inner == CanonString(B, 2)
               entry == CanonString(B, 5)
           IN  /\ (IsDigit(B[1]) /\ alone.end > 0)
                     => /\ b_decoded.ok
                        /\ b_decoded.v = BencodedValueString(alone.key)
               /\ (B[1] = 108 /\ IsDigit(B[2]) /\ inner.end = Len(B) /\ B[Len(B)] = 101)
                     => /\ b_decoded.ok
                        /\ b_decoded.v =
                               BencodedValueList(<<BencodedValueString(inner.key)>>)
               /\ (/\ Len(B) >= 6
                   /\ SubSeq(B, 1, 4) = <<100, 49, 58, 97>>
                   /\ IsDigit(B[5])
                   /\ entry.end = Len(B)
                   /\ B[Len(B)] = 101)
                     => /\ b_decoded.ok
                        /\ b_decoded.v =
                               BencodedValueDict(
                                   <<<< <<97>>, BencodedValueString(entry.key) >>>>)

\* a dictionary whose value is the two bytes 0xC3 ':' has been decoded
C26_Witness ==
    /\ b_pc = "decoded"
    /\ b_input = <<100, 49, 58, 97, 50, 58, 195, 58, 101>>
    /\ b_decoded.v.d[1][2].s = <<195, 58>>

-----------------------------------------------------------------------------
(* Dictionaries: a BTreeMap is filled by insertions in any order and then   *)
(* encoded.                                                                 *)

\* insertions into one dictionary
MaxInserts == 3

RECURSIVE BTreeMapFrom(_)
\* BTreeMap::from([...]): the entries of the array, inserted one by one
BTreeMapFrom(entries) ==
    IF entries = <<>> THEN <<>>
    ELSE LET last_entry == entries[Len(entries)]
         IN  BTreeInsert(BTreeMapFrom(SubSeq(entries, 1, Len(entries) - 1)),
                         last_entry[1], last_entry[2])

\* the keys "", "a", "ab" and "b"
DictKeys == {<<>>, <<97>>, <<97, 98>>, <<98>>}

\* integers, the least i64, a byte string that is not UTF-8, and one nested
\* dictionary {"a": 1, "b": 2} built in both orders
DictValues ==
    { BencodedValueInteger(1), BencodedValueInteger(2),
      BencodedValueInteger(I64Min), BencodedValueString(<<255, 58>>),
      BencodedValueDict(BTreeMapFrom(<<
          <<<<97>>, BencodedValueInteger(1)>>,
          <<<<98>>, BencodedValueInteger(2)>> >>)),
      BencodedValueDict(BTreeMapFrom(<<
          <<<<98>>, BencodedValueInteger(2)>>,
          <<<<97>>, BencodedValueInteger(1)>> >>)) }

\* BTreeMap::new()
DictInit ==
    /\ d_map = <<>>
    /\ d_entries = <<>>
    /\ d_log = <<>>
    /\ d_out = <<>>
    /\ d_pc = "building"

\* dict.insert(key, value)
DictInsert(key, value) ==
    /\ d_pc = "building"
    /\ Len(d_log) < MaxInserts
    /\ d_map' = BTreeInsert(d_map, key, value)
    /\ d_entries' = [k \in DOMAIN d_entries \cup {key} |->
                        IF k = key THEN value ELSE d_entries[k]]
    /\ d_log' = Append(d_log, key)
    /\ UNCHANGED <<d_out, d_pc, notDict>>

\* BencodedValue::Dict(dict).bencode()
DictEncode ==
    /\ d_pc = "building"
    /\ d_out' = bencode(BencodedValueDict(d_map))
    /\ d_pc' = "encoded"
    /\ UNCHANGED <<d_map, d_entries, d_log, notDict>>

InitDict == AnyBuild /\ DictInit /\ SessInit /\ MsgIdle /\ BenIdle /\ MetaIdle /\ HsIdle
    /\ MainIdle /\ TrackerIdle /\ UrlIdle /\ LoopIdle

NextDict ==
    \/ \E key \in DictKeys, value \in DictValues : DictInsert(key, value)
    \/ DictEncode

SpecDict == InitDict /\ [][NextDict]_vars

RECURSIVE EntriesAscending(_, _)
\* the encoded entries of the mapping f for the keys in keys, least key first
EntriesAscending(f, keys) ==
    IF keys = {} THEN <<>>
    ELSE LET k == CHOOSE x \in keys : \A y \in keys \ {x} : BytesLess(x, y)
         IN  to_string(Len(k)) \o <<58>> \o k \o bencode(f[k])
                 \o EntriesAscending(f, keys \ {k})

\* C9: the encoder emits the entries of a dictionary in strictly ascending
\* key order at every nesting level, whatever the order of the insertions:
\* the bytes are those of the mapping's entries taken least key first.
C9_KeysAscending ==
    d_pc = "encoded"
        => /\ Canonical(d_out)
           /\ d_out = <<100>> \o EntriesAscending(d_entries, DOMAIN d_entries)
                          \o <<101>>

\* {"b": 2, "a": 1}, inserted in that order, is encoded as d1:ai1e1:bi2ee
C9_Witness ==
    /\ d_pc = "encoded"
    /\ d_log = <<<<98>>, <<97>>>>
    /\ d_out = Bytes(<<"d", "1", ":", "a", "i", "1", "e",
                       "1", ":", "b", "i", "2", "e", "e">>)

\* C39: for every bencoded value v, decoding the encoding of v returns v and
\* a consumed count equal to the length of the encoding; hence two different
\* values never have the same encoding.
C39_EncodeDecodeRoundTrip ==
    d_pc = "encoded"
        => decode_bencoded_value(d_out)
               = Decoded(Len(d_out), BencodedValueDict(d_map))

-----------------------------------------------------------------------------
(* The metainfo file (file.rs): read_from_file decodes the file, converts   *)
(* the value to a serde_json::Value and deserializes that into MetainfoFile; *)
(* info_hash encodes the four fields of Info again and hashes the bytes.    *)
(* A JSON string is held as its UTF-8 bytes.                                *)

\* a character at position i of s, or the longest invalid run there that
\* from_utf8_lossy replaces by one U+FFFD
Utf8Chunk(s, i) ==
    LET In(j, lo, hi) == j <= Len(s) /\ s[j] >= lo /\ s[j] <= hi
        b == s[i]
        lo2 == IF b = 224 THEN 160 ELSE IF b = 240 THEN 144 ELSE 128
        hi2 == IF b = 237 THEN 159 ELSE IF b = 244 THEN 143 ELSE 191
        want == IF b < 128 THEN 1
                ELSE IF b >= 194 /\ b <= 223 THEN 2
                ELSE IF b >= 224 /\ b <= 239 THEN 3
                ELSE IF b >= 240 /\ b <= 244 THEN 4
                ELSE 0
    IN  IF want = 0 THEN [valid |-> FALSE, len |-> 1]
        ELSE IF want = 1 THEN [valid |-> TRUE, len |-> 1]
        ELSE IF ~In(i + 1, lo2, hi2) THEN [valid |-> FALSE, len |-> 1]
        ELSE IF want = 2 THEN [valid |-> TRUE, len |-> 2]
        ELSE IF ~In(i + 2, 128, 191) THEN [valid |-> FALSE, len |-> 2]
        ELSE IF want = 3 THEN [valid |-> TRUE, len |-> 3]
        ELSE IF ~In(i + 3, 128, 191) THEN [valid |-> FALSE, len |-> 3]
        ELSE [valid |-> TRUE, len |-> 4]

RECURSIVE Utf8LossyFrom(_, _)
\* String::from_utf8_lossy from position i on, as UTF-8 bytes
Utf8LossyFrom(s, i) ==
    IF i > Len(s) THEN <<>>
    ELSE LET c == Utf8Chunk(s, i)
         IN  (IF c.valid THEN SubSeq(s, i, i + c.len - 1) ELSE <<239, 191, 189>>)
                 \o Utf8LossyFrom(s, i + c.len)

\* impl From<&BencodedString> for String
StringFrom(value) == Utf8LossyFrom(value, 1)

\* the enum serde_json::Value, as far as the conversion produces it
JsonString(s) == [j |-> "String", s |-> s]
JsonNumber(n) == [j |-> "Number", n |-> n]
JsonArray(a) == [j |-> "Array", a |-> a]
JsonObject(o) == [j |-> "Object", o |-> o]

\* <[u8]>::is_ascii
IsAscii(s) == \A i \in 1..Len(s) : s[i] < 128

\* impl From<&BencodedString> for serde_json::Value
JsonFromString(value) ==
    IF IsAscii(value) THEN JsonString(StringFrom(value))
    ELSE JsonArray([i \in 1..Len(value) |-> JsonNumber(value[i])])

RECURSIVE JsonFrom(_), JsonFromEntries(_, _)
\* impl From<BencodedValue> for serde_json::Value
JsonFrom(value) ==
    CASE value.t = "String" -> JsonFromString(value.s)
      [] value.t = "Integer" -> JsonNumber(value.i)
      [] value.t = "List" ->
            JsonArray([i \in 1..Len(value.l) |-> JsonFrom(value.l[i])])
      [] value.t = "Dict" -> JsonObject(JsonFromEntries(value.d, <<>>))

\* for (key, value) in d { out.insert(String::from(&key), value.into()) }
JsonFromEntries(d, out) ==
    IF d = <<>> THEN out
    ELSE JsonFromEntries(Tail(d),
             BTreeInsert(out, StringFrom(Head(d)[1]), JsonFrom(Head(d)[2])))

\* the outcome of a Deserialize implementation
DeErr == [ok |-> FALSE]
DeOk(v) == [ok |-> TRUE, v |-> v]

\* String::deserialize
DeserializeString(j) == IF j.j = "String" THEN DeOk(j.s) ELSE DeErr

\* i64::deserialize
DeserializeI64(j) == IF j.j = "Number" THEN DeOk(j.n) ELSE DeErr

\* Vec::<u8>::deserialize
DeserializeVecU8(j) ==
    IF j.j = "Array"
       /\ \A i \in 1..Len(j.a) :
              j.a[i].j = "Number" /\ j.a[i].n >= 0 /\ j.a[i].n <= 255
    THEN DeOk([i \in 1..Len(j.a) |-> j.a[i].n])
    ELSE DeErr

\* the value a derived struct visitor finds for a field: by name in an
\* object, by position in an array; <<>> when there is none
Field(j, name, index) ==
    IF j.j = "Object"
    THEN IF \E i \in 1..Len(j.o) : j.o[i][1] = name
         THEN <<(j.o[CHOOSE i \in 1..Len(j.o) : j.o[i][1] = name])[2]>>
         ELSE <<>>
    ELSE IF index <= Len(j.a) THEN <<j.a[index]>> ELSE <<>>

\* #[derive(Deserialize)] struct Info: unknown keys are ignored
DeserializeInfo(j) ==
    IF j.j \notin {"Object", "Array"} \/ (j.j = "Array" /\ Len(j.a) # 4)
    THEN DeErr
    ELSE LET length == Field(j, Bytes(<<"l", "e", "n", "g", "t", "h">>), 1)
             name == Field(j, Bytes(<<"n", "a", "m", "e">>), 2)
             piece_length ==
                 Field(j, Bytes(<<"p", "i", "e", "c", "e", " ",
                                  "l", "e", "n", "g", "t", "h">>), 3)
             pieces == Field(j, Bytes(<<"p", "i", "e", "c", "e", "s">>), 4)
         IN  IF length = <<>> \/ name = <<>> \/ piece_length = <<>> \/ pieces = <<>>
             THEN DeErr
             ELSE IF /\ DeserializeI64(length[1]).ok
                     /\ DeserializeString(name[1]).ok
                     /\ DeserializeI64(piece_length[1]).ok
                     /\ DeserializeVecU8(pieces[1]).ok
             THEN DeOk([length |-> DeserializeI64(length[1]).v,
                        name |-> DeserializeString(name[1]).v,
                        piece_length |-> DeserializeI64(piece_length[1]).v,
                        pieces |-> DeserializeVecU8(pieces[1]).v])
             ELSE DeErr

\* #[derive(Deserialize)] struct MetainfoFile
DeserializeMetainfoFile(j) ==
    IF j.j \notin {"Object", "Array"} \/ (j.j = "Array" /\ Len(j.a) # 2)
    THEN DeErr
    ELSE LET announce ==
                 Field(j, Bytes(<<"a", "n", "n", "o", "u", "n", "c", "e">>), 1)
             info == Field(j, Bytes(<<"i", "n", "f", "o">>), 2)
         IN  IF announce = <<>> \/ info = <<>> THEN DeErr
             ELSE IF DeserializeString(announce[1]).ok
                     /\ DeserializeInfo(info[1]).ok
             THEN DeOk([announce |-> DeserializeString(announce[1]).v,
                        info |-> DeserializeInfo(info[1]).v])
             ELSE DeErr

\* MetainfoFile::read_from_file on a file with these contents: Ok(metainfo),
\* Err(e), or a panic inside the decoder
read_from_file(contents_u8) ==
    LET decoded_value == BencodedValueFrom(contents_u8)
    IN  IF ~decoded_value.ok THEN [ok |-> FALSE, err |-> "panic"]
        ELSE LET metainfo == DeserializeMetainfoFile(JsonFrom(decoded_value.v))
             IN  IF metainfo.ok THEN metainfo
                 ELSE [ok |-> FALSE, err |-> "Err"]

\* Info::info_hash up to the hasher: the bytes given to hasher.update
InfoHashInput(self) ==
    bencode(BencodedValueDict(BTreeMapFrom(<<
        <<Bytes(<<"l", "e", "n", "g", "t", "h">>),
          BencodedValueInteger(self.length)>>,
        <<Bytes(<<"n", "a", "m", "e">>), BencodedValueString(self.name)>>,
        <<Bytes(<<"p", "i", "e", "c", "e", " ", "l", "e", "n", "g", "t", "h">>),
          BencodedValueInteger(self.piece_length)>>,
        <<Bytes(<<"p", "i", "e", "c", "e", "s">>),
          BencodedValueString(self.pieces)>> >>)))

\* <len>:<key> followed by an encoded value
Entry(key, encoded) == to_string(Len(key)) \o <<58>> \o key \o encoded

\* an encoded byte string
EncStr(bytes) == to_string(Len(bytes)) \o <<58>> \o bytes

\* an encoded integer
EncInt(n) == <<105>> \o to_string(n) \o <<101>>

\* file names: ASCII, UTF-8 beyond ASCII (e with an acute accent), not UTF-8
MetaNames == {Bytes(<<"a", "b">>), <<195, 169>>, <<97, 255>>}

\* piece hashes: 20 bytes beyond ASCII, 20 ASCII bytes, two hashes of which
\* one is ASCII, none, and 21 bytes
MetaPieces ==
    {Fill(20, 200), Fill(20, 65), Fill(20, 200) \o Fill(20, 66), <<>>, Fill(21, 200)}

MetaLengths == {1, 100}
MetaPieceLengths == {1, 16}

\* how the info dictionary is laid out: its four keys in ascending order, the
\* same with a fifth key ("private"), or with "name" ahead of "length"
MetaShapes == {"plain", "private", "misordered"}

\* the encoded info dictionary
InfoBytes(length, name, piece_length, pieces, shape) ==
    LET l == Entry(Bytes(<<"l", "e", "n", "g", "t", "h">>), EncInt(length))
        n == Entry(Bytes(<<"n", "a", "m", "e">>), EncStr(name))
        pl == Entry(Bytes(<<"p", "i", "e", "c", "e", " ",
                            "l", "e", "n", "g", "t", "h">>), EncInt(piece_length))
        ps == Entry(Bytes(<<"p", "i", "e", "c", "e", "s">>), EncStr(pieces))
        pr == Entry(Bytes(<<"p", "r", "i", "v", "a", "t", "e">>), EncInt(1))
    IN  CASE shape = "plain" -> <<100>> \o l \o n \o pl \o ps \o <<101>>
          [] shape = "private" -> <<100>> \o l \o n \o pl \o ps \o pr \o <<101>>
          [] shape = "misordered" -> <<100>> \o n \o l \o pl \o ps \o <<101>>

\* the file: announce, optionally a comment, and the info dictionary
FileBytes(info, commented) ==
    <<100>>
        \o Entry(Bytes(<<"a", "n", "n", "o", "u", "n", "c", "e">>),
                 EncStr(Bytes(<<"h", "t", "t", "p", ":", "t">>)))
        \o (IF commented
            THEN Entry(Bytes(<<"c", "o", "m", "m", "e", "n", "t">>), EncStr(<<195, 169>>))
            ELSE <<>>)
        \o Entry(Bytes(<<"i", "n", "f", "o">>), info)
        \o <<101>>

MetaInit ==
    /\ \E length \in MetaLengths, name \in MetaNames,
          piece_length \in MetaPieceLengths, pieces \in MetaPieces,
          shape \in MetaShapes, commented \in BOOLEAN :
           /\ t_slice = InfoBytes(length, name, piece_length, pieces, shape)
           /\ t_file = FileBytes(t_slice, commented)
    /\ t_loaded = [ok |-> FALSE]
    /\ t_hashed = <<>>
    /\ t_pc = "new"

\* MetainfoFile::read_from_file(torrent_file)
MetaRead ==
    /\ t_pc = "new"
    /\ t_loaded' = read_from_file(t_file)
    /\ t_pc' = IF read_from_file(t_file).ok THEN "loaded" ELSE "failed"
    /\ UNCHANGED <<t_file, t_slice, t_hashed, notMeta>>

\* metainfo.info.info_hash()
MetaInfoHash ==
    /\ t_pc = "loaded"
    /\ t_hashed' = InfoHashInput(t_loaded.v.info)
    /\ t_pc' = "hashed"
    /\ UNCHANGED <<t_file, t_slice, t_loaded, notMeta>>

InitMeta == AnyBuild /\ MetaInit /\ SessInit /\ MsgIdle /\ BenIdle /\ DictIdle /\ HsIdle
    /\ MainIdle /\ TrackerIdle /\ UrlIdle /\ LoopIdle

NextMeta == MetaRead \/ MetaInfoHash

SpecMeta == InitMeta /\ [][NextMeta]_vars

\* C10: for a file whose info dictionary is canonically encoded, the bytes
\* info_hash feeds to SHA-1 after read_from_file has loaded the file are the
\* bytes of the info dictionary in the file.
C10_HashInputIsInfoSlice ==
    (t_pc = "hashed" /\ Canonical(t_slice)) => t_hashed = t_slice

\* Info::piece_hash().len(): self.pieces.chunks(20) has a last chunk of
\* fewer than 20 bytes when the length is no multiple of 20
PieceHashCount(pieces) == (Len(pieces) + 19) \div 20

\* C28: a metainfo value the loader accepts has N * piece_length >= length >
\* (N - 1) * piece_length, N being the number of its piece hashes, and a
\* pieces string whose length is a multiple of 20.
C28_PieceHashPartition ==
    t_pc \in {"loaded", "hashed"}
        => LET info == t_loaded.v.info
               N == PieceHashCount(info.pieces)
           IN  /\ N * info.piece_length >= info.length
               /\ info.length > (N - 1) * info.piece_length
               /\ Len(info.pieces) % 20 = 0

-----------------------------------------------------------------------------
(* The peer session, continued: what each call makes of the bytes the peer *)
(* has sent.  In a step of a call, inbuf is the stream before the call.     *)

\* the step is a call of op on the session
Calls(op) == calls' = calls + 1 /\ last'.op = op

\* the 68 bytes at the head of the stream are a handshake for info_hash
GoodReply(buf, info_hash) ==
    /\ Len(buf) >= 68
    /\ buf[1] = 19
    /\ SubSeq(buf, 2, 20) = PROTOCOL
    /\ SubSeq(buf, 29, 48) = info_hash

\* C11: handshake succeeds, and moves the session from Init to Handshake,
\* only if the reply is 68 bytes with byte 0 = 19, the protocol string and the
\* info-hash that was sent; for any other reply it returns an error and the
\* session stays in Init.
C11_HandshakeVerifiesReply ==
    [][ (Calls("handshake") /\ state = "Init")
            => /\ last'.res = "ok"
                    => (GoodReply(inbuf, last'.args[1]) /\ state' = "Handshake")
               /\ ~GoodReply(inbuf, last'.args[1])
                    => (last'.res = "err" /\ state' = "Init") ]_vars

\* the stream after its leading keep-alive frames
RECURSIVE SkipKeepAlives(_)
SkipKeepAlives(buf) ==
    IF Len(buf) >= 4 /\ SubSeq(buf, 1, 4) = KeepAlive
    THEN SkipKeepAlives(Drop(buf, 4))
    ELSE buf

\* the stream starts with a complete frame that has an id
FramePrefix(buf) == FromBeBytes(SubSeq(buf, 1, 4))
HasFrame(buf) ==
    Len(buf) >= 5 /\ FramePrefix(buf) >= 1 /\ Len(buf) >= 4 + FramePrefix(buf)
FrameId(buf) == buf[5]

\* C13: in state Interested, read_unchoke skips keep-alive frames and then
\* succeeds, moving to Unchoke, exactly when the first other message has
\* id 1; for any other id it returns an error and the state stays Interested.
C13_UnchokeAfterKeepAlives ==
    [][ (Calls("read_unchoke") /\ state = "Interested")
            => LET rest == SkipKeepAlives(inbuf)
               IN  /\ last'.res = "ok" => (HasFrame(rest) /\ FrameId(rest) = 1)
                   /\ (HasFrame(rest) /\ FrameId(rest) = 1)
                         => (last'.res = "ok" /\ state' = "Unchoke")
                   /\ (HasFrame(rest) /\ FrameId(rest) # 1)
                         => (last'.res = "err" /\ state' = "Interested") ]_vars

\* C14: in state Handshake, read_bitfield reads exactly one frame; it
\* succeeds, moves to Bitfield and returns the frame's payload unchanged if
\* and only if the frame has id 5; for any other id it returns an error and
\* the state stays Handshake.
C14_BitfieldOnlyOnId5 ==
    [][ (Calls("read_bitfield") /\ state = "Handshake")
            => /\ last'.res = "ok" => (HasFrame(inbuf) /\ FrameId(inbuf) = 5)
               /\ HasFrame(inbuf)
                     => /\ inbuf' = Drop(inbuf, 4 + FramePrefix(inbuf))
                        /\ FrameId(inbuf) = 5
                              => /\ last'.res = "ok"
                                 /\ state' = "Bitfield"
                                 /\ last'.ret = Bitfield(SubSeq(inbuf, 6,
                                                    4 + FramePrefix(inbuf)))
                        /\ FrameId(inbuf) # 5
                              => (last'.res = "err" /\ state' = "Handshake") ]_vars

\* the (index, begin) pairs of the requests a call has put on the wire
RequestedBlocks(io) ==
    LET w == RequestsWritten(io)
    IN  {<<w[j][1], w[j][2]>> : j \in 1..Len(w)}

\* the (index, begin) pairs of the piece messages a call has returned
ReceivedBlocks(downloads) ==
    {<<downloads[j].index, downloads[j].begin>> : j \in 1..Len(downloads)}

\* the returned piece messages are the requested blocks, one message per
\* block, in some order
AnswersInSomeOrder(io, downloads) ==
    /\ Len(downloads) = Len(RequestsWritten(io))
    /\ ReceivedBlocks(downloads) = RequestedBlocks(io)

\* C15: whatever order the piece responses of one piece arrive in, the
\* reassembled buffer holds the block of each response at the offset given
\* by the response's begin field.
C15_BlocksPlacedByBegin ==
    (/\ last.op = "download_piece"
     /\ last.res = "ok"
     /\ AnswersInSomeOrder(last.io, last.ret))
        => \A j \in 1..Len(last.ret) :
              SubSeq(DownloadedPayload(last.ret), last.ret[j].begin + 1,
                     last.ret[j].begin + Len(last.ret[j].block))
                  = last.ret[j].block

\* C16: download_piece returns successfully only if for every block it
\* requested a piece message with that index and begin was received, and no
\* piece message for another index or begin stands in for a request.
C16_ResponsesMatchRequests ==
    (last.op = "download_piece" /\ last.res = "ok")
        => /\ RequestedBlocks(last.io) \subseteq ReceivedBlocks(last.ret)
           /\ ReceivedBlocks(last.ret) \subseteq RequestedBlocks(last.io)

\* the step is a read of download_piece, with blocks outstanding
DlReads == dl.pc = "read" /\ last'.io # last.io /\ calls' = calls

\* C17: while blocks are outstanding, keep-alives are passed over; a piece
\* message behind them lets the download go on, a choke makes download_piece
\* fail, and so does any other message id; a failed download_piece returns
\* no piece data.
C17_MidPieceMessages ==
    [][ DlReads
            => LET rest == SkipKeepAlives(inbuf)
               IN  /\ (HasFrame(rest) /\ FrameId(rest) = 7)
                         => last'.res \in {"running", "ok"}
                   /\ (HasFrame(rest) /\ FrameId(rest) # 7)
                         => last'.res = "err"
                   /\ last'.res \in {"err", "panic"} => last'.ret = <<>> ]_vars

-----------------------------------------------------------------------------
(* The handshake codec on its own: the client's handshake for an info-hash  *)
(* is converted to bytes and the bytes are converted back.                  *)

\* bytes the info-hashes are made of
HashBytes == {0, 19, 127, 200, 255}

\* 20-byte info-hashes: a first byte, a last byte and 18 equal bytes between
InfoHashes ==
    { [i \in 1..20 |-> IF i = 1 THEN a ELSE IF i = 20 THEN b ELSE c] :
          a \in HashBytes, b \in HashBytes, c \in HashBytes }

HsInit ==
    /\ h_info_hash \in InfoHashes
    /\ h_bytes = <<>>
    /\ h_parsed = [ok |-> FALSE]
    /\ h_pc = "new"

\* PeerHandshake::new(info_hash, PEER_ID).into()
HsWrite ==
    /\ h_pc = "new"
    /\ h_bytes' = PeerHandshakeInto(PeerHandshakeNew(h_info_hash, PEER_ID))
    /\ h_pc' = "written"
    /\ UNCHANGED <<h_info_hash, h_parsed, notHs>>

\* PeerHandshake::from(bytes)
HsParse ==
    /\ h_pc = "written"
    /\ h_parsed' = PeerHandshakeFrom(h_bytes)
    /\ h_pc' = "parsed"
    /\ UNCHANGED <<h_info_hash, h_bytes, notHs>>

InitHandshake == AnyBuild /\ HsInit /\ SessInit /\ MsgIdle /\ BenIdle /\ DictIdle /\ MetaIdle
    /\ MainIdle /\ TrackerIdle /\ UrlIdle /\ LoopIdle

NextHandshake == HsWrite \/ HsParse

SpecHandshake == InitHandshake /\ [][NextHandshake]_vars

\* C12: the handshake written for a 20-byte info-hash is 68 bytes: 19, the
\* protocol string, 8 zero bytes, the info-hash, the peer-id; parsing them
\* returns these five fields.
C12_HandshakeLayout ==
    /\ h_pc \in {"written", "parsed"}
          => /\ Len(h_bytes) = 68
             /\ h_bytes[1] = 19
             /\ SubSeq(h_bytes, 2, 20) = PROTOCOL
             /\ \A i \in 21..28 : h_bytes[i] = 0
             /\ SubSeq(h_bytes, 29, 48) = h_info_hash
             /\ SubSeq(h_bytes, 49, 68) = PEER_ID
    /\ h_pc = "parsed"
          => /\ h_parsed.ok
             /\ h_parsed.hs.length = 19
             /\ h_parsed.hs.protocol = PROTOCOL
             /\ h_parsed.hs.reserved = <<0, 0, 0, 0, 0, 0, 0, 0>>
             /\ h_parsed.hs.info_hash = h_info_hash
             /\ h_parsed.hs.peer_id = PEER_ID

\* a handshake whose info-hash has three different bytes has been written
\* and parsed back
C12_Witness ==
    /\ h_pc = "parsed"
    /\ h_parsed.ok
    /\ h_info_hash[1] = 200 /\ h_info_hash[2] = 19 /\ h_info_hash[20] = 255
    /\ h_parsed.hs.info_hash = h_info_hash

-----------------------------------------------------------------------------
(* main.rs: the subcommands peers, handshake, download_piece and download.  *)
(* The state is the one after MetainfoFile::read_from_file has returned.    *)
(* The calls on the PeerStream are the actions of the session above; a      *)
(* subcommand makes one call at a time and goes on when it has returned.    *)

notMain == <<buildVars, sessVars, msgVars, benVars, dictVars, metaVars, hsVars,
            trVars, urlVars, loopVars>>

\* the SHA-1 digest of a byte string, taken to be free of collisions
Sha1(bytes) == [sha1_of |-> bytes]

\* Info::piece_hash: one entry for every 20 bytes of `pieces`
piece_hash(info) == info.pieces

\* Info::verify_piece
verify_piece(info, piece_index, payload) ==
    /\ piece_index < Len(piece_hash(info))
    /\ Sha1(payload) = piece_hash(info)[piece_index + 1]

\* the piece_length without the arm for the last piece
PieceLengthFlat(info, piece_index) == info.piece_length

\* the piece_length with the remainder of the division for the last piece
PieceLengthRemainder(info, piece_index) ==
    IF piece_index = Len(info.pieces) - 1
    THEN info.length % info.piece_length
    ELSE info.piece_length

\* the piece_length handed to download_piece
PieceLength(info, piece_index) ==
    IF piece_index = Len(piece_hash(info)) - 1
    THEN info.length - (piece_index * info.piece_length)
    ELSE info.piece_length

\* the torrents the subcommands are run on: one piece of one block, two
\* pieces of one block, two pieces the second of which is short, and one
\* piece of two blocks
MainTorrents ==
    { [length |-> CHUNK_SIZE, piece_length |-> CHUNK_SIZE,
       pieces |-> <<Sha1(Fill(CHUNK_SIZE, 1))>>],
      [length |-> 2 * CHUNK_SIZE, piece_length |-> CHUNK_SIZE,
       pieces |-> <<Sha1(Fill(CHUNK_SIZE, 1)), Sha1(Fill(CHUNK_SIZE, 3))>>],
      [length |-> 20000, piece_length |-> CHUNK_SIZE,
       pieces |-> <<Sha1(Fill(CHUNK_SIZE, 1)), Sha1(Fill(3616, 3))>>],
      [length |-> 2 * CHUNK_SIZE, piece_length |-> 2 * CHUNK_SIZE,
       pieces |-> <<Sha1(Fill(CHUNK_SIZE, 1) \o Fill(CHUNK_SIZE, 2))>>] }

SubCommands == {"peers", "handshake", "download_piece", "download"}

\* ping_tracker: an error, a response without peers, a response with peers
TrackerOutcomes == {"err", "none", "peers"}

\* one step of a subcommand's flow and whether it succeeded
Step(name, args, ok) == [step |-> name, args |-> args, ok |-> ok]

\* the process ends: exit code 0, or a panic (exit code 101)
Exit(how) == c_exit' = how /\ c_pc' = "done"

MainInit ==
    /\ c_cmd \in SubCommands
    /\ c_info \in MainTorrents
    /\ c_piece_index \in
          (IF c_cmd = "download_piece" THEN 0..(Len(piece_hash(c_info)) - 1) ELSE {0})
    /\ c_pc = "tracker"
    /\ c_mark = 0
    /\ c_streams = 0
    /\ c_downloads = <<>>
    /\ c_payloads = <<>>
    /\ c_file = [created |-> FALSE, writes |-> <<>>]
    /\ c_steps = <<>>
    /\ c_exit = "running"

\* ping_tracker(..).await and the match on it; then the choice of the peer
\* and PeerStream::new
MainTracker(outcome) ==
    /\ c_pc = "tracker"
    /\ IF outcome = "err"
       THEN /\ c_steps' = Append(c_steps, Step("tracker", <<>>, FALSE))
            /\ Exit("ok")
            /\ UNCHANGED <<c_mark, c_streams>>
       ELSE IF c_cmd = "peers"
       THEN /\ c_steps' = Append(c_steps, Step("tracker", <<>>, TRUE))
            /\ Exit("ok")
            /\ UNCHANGED <<c_mark, c_streams>>
       ELSE IF outcome = "none"
       THEN /\ c_steps' = c_steps \o <<Step("tracker", <<>>, TRUE),
                                       Step("peer", <<>>, FALSE)>>
            /\ Exit("panic")
            /\ UNCHANGED <<c_mark, c_streams>>
       ELSE /\ c_steps' = c_steps \o <<Step("tracker", <<>>, TRUE),
                                       Step("peer", <<>>, TRUE)>>
            /\ c_streams' = c_streams + 1
            /\ c_mark' = calls
            /\ c_pc' = IF c_cmd = "handshake" THEN "handshake" ELSE "prep"
            /\ UNCHANGED c_exit
    /\ UNCHANGED <<c_cmd, c_info, c_piece_index, c_downloads, c_payloads, c_file,
                   notMain>>

\* handshake subcommand: peer_stream.handshake(&metainfo.info.info_hash())
MainHandshakeCall ==
    /\ c_pc = "handshake"
    /\ calls = c_mark
    /\ Handshake(INFO_HASH)

\* handshake subcommand: the match on the result; both arms print and return
MainHandshakeReturn ==
    /\ c_pc = "handshake"
    /\ calls = c_mark + 1
    /\ ~crashed
    /\ c_steps' = Append(c_steps, Step("handshake", <<>>, last.res = "ok"))
    /\ Exit("ok")
    /\ UNCHANGED <<c_cmd, c_info, c_piece_index, c_mark, c_streams, c_downloads,
                   c_payloads, c_file, notMain>>

\* PeerStream::prep_download: handshake, read_bitfield, write_interested and
\* read_unchoke, each called if the one before it succeeded
MainPrepCall ==
    /\ c_pc = "prep"
    /\ calls = c_mark \/ last.res = "ok"
    /\ \/ calls = c_mark /\ Handshake(INFO_HASH)
       \/ calls = c_mark + 1 /\ ReadBitfield
       \/ calls = c_mark + 2 /\ WriteInterested
       \/ calls = c_mark + 3 /\ ReadUnchoke

\* the match on the result of prep_download: both arms print and go on
MainPrepReturn ==
    /\ c_pc = "prep"
    /\ ~crashed
    /\ calls > c_mark
    /\ last.res = "err" \/ calls = c_mark + 4
    /\ c_steps' = Append(c_steps, Step("prep_download", <<>>, last.res = "ok"))
    /\ c_mark' = calls
    /\ c_pc' = "piece"
    /\ UNCHANGED <<c_cmd, c_info, c_piece_index, c_streams, c_downloads,
                   c_payloads, c_file, c_exit, notMain>>

\* the index of the piece to download next
NextPiece == IF c_cmd = "download" THEN Len(c_downloads) ELSE c_piece_index

\* peer_stream.download_piece(piece_index as u32, &piece_length)
MainPieceCall ==
    /\ c_pc = "piece"
    /\ calls = c_mark
    /\ DownloadPiece(NextPiece, PieceLength(c_info, NextPiece))

\* the request and response steps of the download_piece call
MainPieceWrite == c_pc = "piece" /\ DlWrite
MainPieceRead == c_pc = "piece" /\ DlRead

\* .unwrap() of the result of download_piece; download goes on with the
\* next piece until the range 0..piece_hash().len() is exhausted
MainPieceReturn ==
    /\ c_pc = "piece"
    /\ calls = c_mark + 1
    /\ ~crashed
    /\ last.res \in {"ok", "err"}
    /\ c_steps' = Append(c_steps, Step("download_piece", last.args, last.res = "ok"))
    /\ IF last.res = "err"
       THEN /\ Exit("panic")
            /\ UNCHANGED <<c_mark, c_downloads>>
       ELSE /\ c_downloads' = Append(c_downloads, last.ret)
            /\ c_mark' = calls
            /\ c_pc' = IF c_cmd = "download"
                          /\ Len(c_downloads) + 1 < Len(piece_hash(c_info))
                       THEN "piece" ELSE "fold"
            /\ UNCHANGED c_exit
    /\ UNCHANGED <<c_cmd, c_info, c_piece_index, c_streams, c_payloads, c_file,
                   notMain>>

\* a call on the session has panicked: the process is aborted
MainAbort ==
    /\ c_exit = "running"
    /\ crashed
    /\ c_steps' = Append(c_steps,
           Step(IF c_pc = "piece" THEN "download_piece"
                ELSE IF c_pc = "prep" THEN "prep_download" ELSE c_pc,
                IF c_pc = "piece" THEN last.args ELSE <<>>, FALSE))
    /\ Exit("panic")
    /\ UNCHANGED <<c_cmd, c_info, c_piece_index, c_mark, c_streams, c_downloads,
                   c_payloads, c_file, notMain>>

\* the folds over the downloads; download_piece then asserts the length of
\* its payload
MainFold ==
    /\ c_pc = "fold"
    /\ LET payloads == [i \in 1..Len(c_downloads) |-> DownloadedPayload(c_downloads[i])]
       IN  /\ c_payloads' = payloads
           /\ IF /\ c_cmd = "download_piece"
                 /\ Len(payloads[1]) # PieceLength(c_info, c_piece_index)
              THEN /\ c_steps' = Append(c_steps, Step("assert_eq", <<>>, FALSE))
                   /\ Exit("panic")
              ELSE /\ c_pc' = "verify"
                   /\ UNCHANGED <<c_steps, c_exit>>
    /\ UNCHANGED <<c_cmd, c_info, c_piece_index, c_mark, c_streams, c_downloads,
                   c_file, notMain>>

\* the output file after std::fs::write(&output, payload)
Written(piece_index, payload) ==
    [created |-> TRUE, writes |-> <<[piece |-> piece_index, bytes |-> payload]>>]

\* download_piece subcommand with the payload saved whatever verify_piece said
SaveUnverified(verified, piece_index, payload) ==
    [file |-> Written(piece_index, payload), exit |-> "ok"]

\* download_piece subcommand: `if verified { std::fs::write(..) } else { panic!(..) }`
SaveVerified(verified, piece_index, payload) ==
    IF verified
    THEN [file |-> Written(piece_index, payload), exit |-> "ok"]
    ELSE [file |-> [created |-> FALSE, writes |-> <<>>], exit |-> "panic"]

\* download_piece subcommand: info.verify_piece(piece_index, &downloaded_payload)
\* and what follows it
MainVerify ==
    /\ c_pc = "verify"
    /\ c_cmd = "download_piece"
    /\ LET verified == verify_piece(c_info, c_piece_index, c_payloads[1])
           saved == SaveVerified(verified, c_piece_index, c_payloads[1])
       IN  /\ c_steps' = Append(c_steps, Step("verify_piece", <<c_piece_index>>, verified))
           /\ c_file' = saved.file
           /\ Exit(saved.exit)
    /\ UNCHANGED <<c_cmd, c_info, c_piece_index, c_mark, c_streams, c_downloads,
                   c_payloads, notMain>>

\* the pieces verify_piece is called on by `.all(..)`: it stops, with a
\* panic, at the first payload that fails
VerifiedUpTo(info, payloads) ==
    LET bad == {i \in 1..Len(payloads) : ~verify_piece(info, i - 1, payloads[i])}
    IN  IF bad = {} THEN Len(payloads)
        ELSE CHOOSE i \in bad : \A j \in bad : i <= j

\* download subcommand: the verification of every payload
MainVerifyAll ==
    /\ c_pc = "verify"
    /\ c_cmd = "download"
    /\ LET n == VerifiedUpTo(c_info, c_payloads)
           checks == [i \in 1..n |->
                         Step("verify_piece", <<i - 1>>,
                              verify_piece(c_info, i - 1, c_payloads[i]))]
       IN  /\ c_steps' = c_steps \o checks
           /\ IF \A i \in 1..n : checks[i].ok
              THEN c_pc' = "create" /\ UNCHANGED c_exit
              ELSE Exit("panic")
    /\ UNCHANGED <<c_cmd, c_info, c_piece_index, c_mark, c_streams, c_downloads,
                   c_payloads, c_file, notMain>>

\* download subcommand with std::fs::File::create(&output) moved in front of
\* the verification
MainCreateEarly ==
    /\ c_pc \in {"verify", "create"}
    /\ c_cmd = "download"
    /\ ~c_file.created
    /\ c_file' = [created |-> TRUE, writes |-> <<>>]
    /\ c_pc' = IF c_pc = "create" THEN "write" ELSE c_pc
    /\ UNCHANGED <<c_cmd, c_info, c_piece_index, c_mark, c_streams, c_downloads,
                   c_payloads, c_steps, c_exit, notMain>>

\* download subcommand: std::fs::File::create(&output)
MainCreate ==
    /\ c_pc = "create"
    /\ c_file' = [created |-> TRUE, writes |-> <<>>]
    /\ c_pc' = "write"
    /\ UNCHANGED <<c_cmd, c_info, c_piece_index, c_mark, c_streams, c_downloads,
                   c_payloads, c_steps, c_exit, notMain>>

\* download subcommand: output_file.write_all(payload) of one payload
MainWrite ==
    /\ c_pc = "write"
    /\ Len(c_file.writes) < Len(c_payloads)
    /\ c_file' = [c_file EXCEPT !.writes =
                     Append(@, [piece |-> Len(c_file.writes),
                                bytes |-> c_payloads[Len(c_file.writes) + 1]])]
    /\ UNCHANGED <<c_cmd, c_info, c_piece_index, c_pc, c_mark, c_streams,
                   c_downloads, c_payloads, c_steps, c_exit, notMain>>

\* download subcommand: the end of main after the last write
MainFinish ==
    /\ c_pc = "write"
    /\ Len(c_file.writes) = Len(c_payloads)
    /\ Exit("ok")
    /\ UNCHANGED <<c_cmd, c_info, c_piece_index, c_mark, c_streams, c_downloads,
                   c_payloads, c_file, c_steps, notMain>>

\* the peer is connected from PeerStream::new until the last call on the session
Connected == c_pc \in {"handshake", "prep", "piece"}

MainPeerSend(chunk) == Connected /\ PeerSend(chunk)
MainPeerSendPiece(chunk) == Connected /\ PeerSendPiece(chunk)
MainPeerClose == Connected /\ PeerClose

\* no step of main or of the session depends on the build profile: the
\* subcommands are run as built by `cargo run`, with overflow checks
InitMain ==
    /\ overflow_checks = TRUE
    /\ MainInit /\ SessInit /\ MsgIdle /\ BenIdle /\ DictIdle /\ MetaIdle /\ HsIdle
    /\ TrackerIdle /\ UrlIdle /\ LoopIdle

NextMain ==
    \/ \E outcome \in TrackerOutcomes : MainTracker(outcome)
    \/ MainHandshakeCall
    \/ MainHandshakeReturn
    \/ MainPrepCall
    \/ MainPrepReturn
    \/ MainPieceCall
    \/ MainPieceWrite
    \/ MainPieceRead
    \/ MainPieceReturn
    \/ MainAbort
    \/ MainFold
    \/ MainVerify
    \/ MainVerifyAll
    \/ MainCreate
    \/ MainWrite
    \/ MainFinish
    \/ \E chunk \in PeerChunks : MainPeerSend(chunk)
    \/ \E chunk \in PeerPieces : MainPeerSendPiece(chunk)
    \/ MainPeerClose

SpecMain == InitMain /\ [][NextMain]_vars

\* C18: a piece whose SHA-1 differs from the expected piece hash is
\* discarded: in the download_piece and download subcommands every payload
\* in the output file has passed verify_piece for its piece.
C18_OnlyVerifiedWritten ==
    /\ \A i \in 1..Len(c_file.writes) :
          verify_piece(c_info, c_file.writes[i].piece, c_file.writes[i].bytes)
    /\ (\E i \in 1..Len(c_payloads) :
            ~verify_piece(c_info,
                          IF c_cmd = "download" THEN i - 1 ELSE c_piece_index,
                          c_payloads[i]))
          => (~c_file.created /\ c_file.writes = <<>> /\ c_exit # "ok")

\* download_piece has ended after a payload of the right length failed
\* verification, and nothing was written
C18_Witness ==
    /\ c_cmd = "download_piece"
    /\ c_pc = "done"
    /\ c_payloads # <<>>
    /\ Len(c_payloads[1]) = PieceLength(c_info, c_piece_index)
    /\ ~verify_piece(c_info, c_piece_index, c_payloads[1])
    /\ c_exit = "panic"
    /\ c_file.writes = <<>>

\* the size of piece i of a torrent of N pieces: piece_length for i < N - 1,
\* else length - (N - 1) * piece_length
piece_size(info, i) ==
    IF i < Len(info.pieces) - 1 THEN info.piece_length
    ELSE info.length - (Len(info.pieces) - 1) * info.piece_length

\* the download_piece calls made so far that have returned or panicked
PieceCalls == SelectSeq(c_steps, LAMBDA e : e.step = "download_piece")

\* C19: the download subcommand creates one session and calls download_piece
\* on it for p = 0, 1, ..., N-1 in that order with size piece_size(p); the
\* output file receives the payloads of these calls in ascending piece
\* order, each once.
C19_PiecesInOrder ==
    c_cmd = "download"
        => /\ c_streams <= 1
           /\ Len(PieceCalls) <= Len(c_info.pieces)
           /\ \A j \in 1..Len(PieceCalls) :
                 PieceCalls[j].args = <<j - 1, piece_size(c_info, j - 1)>>
           /\ (c_pc = "piece" /\ calls = c_mark + 1)
                 => /\ last.op = "download_piece"
                    /\ last.args = <<Len(c_downloads),
                                     piece_size(c_info, Len(c_downloads))>>
           /\ Len(c_file.writes) <= Len(c_info.pieces)
           /\ \A i \in 1..Len(c_file.writes) :
                 /\ c_file.writes[i].piece = i - 1
                 /\ c_file.writes[i].bytes = DownloadedPayload(c_downloads[i])
                 /\ PieceCalls[i].args[1] = i - 1
           /\ (c_exit = "ok" /\ c_file.created)
                 => /\ Len(c_file.writes) = Len(c_info.pieces)
                    /\ Len(PieceCalls) = Len(c_info.pieces)

\* a download of a torrent of two pieces has ended with both pieces written
C19_Witness ==
    /\ c_cmd = "download"
    /\ c_exit = "ok"
    /\ Len(c_info.pieces) = 2
    /\ Len(c_file.writes) = 2
    /\ c_file.writes[1].bytes = Fill(CHUNK_SIZE, 1)
    /\ c_file.writes[2].bytes = Fill(CHUNK_SIZE, 3)

\* C20: a step that fails ends the subcommand with a failure outcome and no
\* step is attempted after it; the subcommand ends with exit code 0 only if
\* every step succeeded.
C20_FailureEndsSubcommand ==
    /\ c_exit = "ok" => \A j \in 1..Len(c_steps) : c_steps[j].ok
    /\ \A j \in 1..Len(c_steps) :
          ~c_steps[j].ok => (j = Len(c_steps) /\ c_exit = "panic")

RECURSIVE SizesUpTo(_, _)
\* the sum of the piece_length values computed for pieces 0..n-1
SizesUpTo(info, n) ==
    IF n = 0 THEN 0 ELSE SizesUpTo(info, n - 1) + PieceLength(info, n - 1)

-----------------------------------------------------------------------------
(* The tracker response: ping_tracker decodes the body of the HTTP response *)
(* and converts the decoded value to a TrackerResponse.                     *)

notTr == <<buildVars, sessVars, msgVars, benVars, dictVars, metaVars, hsVars,
          mainVars, urlVars, loopVars>>

\* most endpoints in a peers string of the model
MaxPeers == 2

\* u16::from_le_bytes([port[0], port[1]])
U16FromLeBytes(port) == port[2] * 256 + port[1]

\* u16::from_be_bytes([port[0], port[1]])
U16FromBeBytes(port) == port[1] * 256 + port[2]

\* str::parse::<u16> of a run of digits
ParseU16(s) ==
    IF s # <<>> /\ (\A i \in 1..Len(s) : IsDigit(s[i])) /\ DigitsValue(s) <= 65535
    THEN [ok |-> TRUE, n |-> DigitsValue(s)]
    ELSE [ok |-> FALSE]

\* SocketAddrV4::new(Ipv4Addr::new(a, b, c, d), port)
SocketAddrV4(ip, port) == [ip |-> ip, port |-> port]

RECURSIVE Chunks(_, _)
\* slice::chunks(n): runs of n elements, the last one shorter when the length
\* is no multiple of n
Chunks(s, n) ==
    IF s = <<>> THEN <<>>
    ELSE IF Len(s) <= n THEN <<s>>
    ELSE <<SubSeq(s, 1, n)>> \o Chunks(SubSeq(s, n + 1, Len(s)), n)

\* BTreeMap::get
BTreeGet(map, key) ==
    IF \E i \in 1..Len(map) : map[i][1] = key
    THEN [some |-> TRUE,
          v |-> map[CHOOSE i \in 1..Len(map) : map[i][1] = key][2]]
    ELSE [some |-> FALSE]

\* the closure of for_each on one chunk: &chunk[0..4] and &chunk[4..6] panic
\* on a chunk of fewer than 6 bytes
NewPeer(chunk) ==
    IF Len(chunk) < 6 THEN [ok |-> FALSE]
    ELSE LET ip == SubSeq(chunk, 1, 4)
             port == SubSeq(chunk, 5, 6)
             port_str == to_string(U16FromBeBytes(port))
             parsed == ParseU16(port_str)
         IN  IF parsed.ok THEN [ok |-> TRUE, v |-> SocketAddrV4(ip, parsed.n)]
             ELSE [ok |-> FALSE]

\* TrackerResponse::try_from(&BencodedValue): Ok, Err or a panic
TrackerResponseTryFrom(value) ==
    IF value.t # "Dict" THEN [ok |-> FALSE, err |-> "Not a dict"]
    ELSE
        LET i == BTreeGet(value.d, Bytes(<<"i", "n", "t", "e", "r", "v", "a", "l">>))
            p == BTreeGet(value.d, Bytes(<<"p", "e", "e", "r", "s">>))
            isInt == i.some /\ i.v.t = "Integer"
        IN  IF isInt /\ i.v.i < 0
            THEN [ok |-> FALSE, err |-> "Interval is negative"]
            ELSE IF ~(p.some /\ p.v.t = "String")
            THEN [ok |-> FALSE, err |-> "No peers"]
            ELSE LET peer_chunks == Chunks(p.v.s, 6)
                     new == [c \in 1..Len(peer_chunks) |-> NewPeer(peer_chunks[c])]
                 IN  IF \E c \in 1..Len(new) : ~new[c].ok
                     THEN [ok |-> FALSE, err |-> "panic"]
                     ELSE [ok |-> TRUE,
                           v |-> [interval |-> IF isInt THEN i.v.i ELSE 0,
                                  peers |-> [c \in 1..Len(new) |-> new[c].v]]]

\* endpoints as the tracker sends them: 127.0.0.1:6800, 127.0.0.1:7056 and
\* 10.0.255.128:1
WireEndpoints ==
    {<<127, 0, 0, 1, 26, 144>>, <<127, 0, 0, 1, 27, 144>>, <<10, 0, 255, 128, 0, 1>>}

RECURSIVE Concat(_)
\* the elements of a sequence of sequences, one after the other
Concat(ss) == IF ss = <<>> THEN <<>> ELSE Head(ss) \o Concat(Tail(ss))

\* peers strings: up to MaxPeers endpoints, and strings that end inside an
\* endpoint
PeerStrings ==
    LET whole == {Concat(es) : es \in UNION {[1..n -> WireEndpoints] : n \in 0..MaxPeers}}
    IN  whole \cup {SubSeq(<<127, 0, 0, 1, 26, 144>>, 1, n) : n \in {3, 5}}
              \cup {e \o <<127>> : e \in WireEndpoints}
              \cup {e \o <<127, 0, 0, 1>> : e \in WireEndpoints}

\* the value under `interval`: absent, 60, 0, -1, a string
IntervalFields ==
    {<<>>} \cup {Entry(Bytes(<<"i", "n", "t", "e", "r", "v", "a", "l">>), v) :
                    v \in {EncInt(60), EncInt(0), EncInt(-1), EncStr(<<54, 48>>)}}

\* the value under `peers`: absent, a string, an integer, a list
PeersFields ==
    {<<>>} \cup {Entry(Bytes(<<"p", "e", "e", "r", "s">>), v) :
                    v \in {EncStr(s) : s \in PeerStrings} \cup {EncInt(5), <<108, 101>>}}

\* response bodies: dictionaries, values that are no dictionary, and bodies
\* that are not bencoded (empty, an HTML page, a dictionary cut short)
TrackerBodies ==
    {<<100>> \o i \o p \o <<101>> : i \in IntervalFields, p \in PeersFields}
        \cup {EncInt(1), <<108, 101>>, EncStr(<<127, 0, 0, 1, 26, 144>>)}
        \cup {<<>>, <<60, 104, 116, 109, 108, 62>>,
              <<100>> \o Bytes(<<"5", ":", "p", "e", "e", "r", "s", "6", ":">>)
                  \o <<127, 0, 0>>}

\* reqwest::get(&url).await?.bytes().await? has returned a body
TrackerInit ==
    /\ r_body \in TrackerBodies
    /\ r_decoded = [ok |-> FALSE]
    /\ r_response = [ok |-> FALSE]
    /\ r_pc = "new"

\* let de_bencoded: BencodedValue = BencodedValue::from(resp_u8)
TrackerDecode ==
    /\ r_pc = "new"
    /\ r_decoded' = BencodedValueFrom(r_body)
    /\ r_pc' = IF BencodedValueFrom(r_body).ok THEN "decoded" ELSE "panicked"
    /\ UNCHANGED <<r_body, r_response, notTr>>

\* let tracker_response = TrackerResponse::try_from(&de_bencoded)?
TrackerTryFrom ==
    /\ r_pc = "decoded"
    /\ LET out == TrackerResponseTryFrom(r_decoded.v)
       IN  /\ r_response' = out
           /\ r_pc' = IF out.ok THEN "parsed"
                      ELSE IF out.err = "panic" THEN "panicked" ELSE "failed"
    /\ UNCHANGED <<r_body, r_decoded, notTr>>

InitTracker ==
    /\ AnyBuild /\ TrackerInit /\ SessInit /\ MsgIdle /\ BenIdle /\ DictIdle
    /\ MetaIdle /\ HsIdle /\ MainIdle /\ UrlIdle /\ LoopIdle

NextTracker == TrackerDecode \/ TrackerTryFrom

SpecTracker == InitTracker /\ [][NextTracker]_vars

\* the value the decoded body holds under `peers`
PeersOf(decoded) == BTreeGet(decoded.v.d, Bytes(<<"p", "e", "e", "r", "s">>))

\* the value the decoded body holds under `interval`
IntervalOf(decoded) ==
    BTreeGet(decoded.v.d, Bytes(<<"i", "n", "t", "e", "r", "v", "a", "l">>))

\* the decoded body is a dictionary with a byte string under `peers`
HasPeersString(decoded) ==
    /\ decoded.ok
    /\ decoded.v.t = "Dict"
    /\ PeersOf(decoded).some
    /\ PeersOf(decoded).v.t = "String"

\* the decoded body has a negative integer under `interval`
NegativeInterval(decoded) ==
    /\ IntervalOf(decoded).some
    /\ IntervalOf(decoded).v.t = "Integer"
    /\ IntervalOf(decoded).v.i < 0

\* C29: parsing a tracker response whose peers string has length 6 * k
\* yields exactly k endpoints in wire order, the i-th with the address bytes
\* [6i, 6i+4) and the port that bytes [6i+4, 6i+6) denote in big-endian.
C29_PeersInWireOrder ==
    (/\ r_pc \in {"parsed", "failed", "panicked"}
     /\ HasPeersString(r_decoded)
     /\ ~NegativeInterval(r_decoded)
     /\ Len(PeersOf(r_decoded).v.s) % 6 = 0)
        => LET s == PeersOf(r_decoded).v.s
               k == Len(s) \div 6
           IN  /\ r_pc = "parsed"
               /\ Len(r_response.v.peers) = k
               /\ \A i \in 0..(k - 1) :
                     /\ r_response.v.peers[i + 1].ip
                            = <<s[6 * i + 1], s[6 * i + 2], s[6 * i + 3], s[6 * i + 4]>>
                     /\ r_response.v.peers[i + 1].port
                            = 256 * s[6 * i + 5] + s[6 * i + 6]

\* 7f 00 00 01 1a 90 7f 00 00 01 1b 90 has been parsed to 127.0.0.1:6800 and
\* 127.0.0.1:7056, in this order
C29_Witness ==
    /\ r_pc = "parsed"
    /\ PeersOf(r_decoded).v.s = <<127, 0, 0, 1, 26, 144, 127, 0, 0, 1, 27, 144>>
    /\ r_response.v.peers = << [ip |-> <<127, 0, 0, 1>>, port |-> 6800],
                               [ip |-> <<127, 0, 0, 1>>, port |-> 7056] >>

\* C30: parsing a tracker response never aborts; it returns an error when
\* the body is not bencoded, is no dictionary, or has no byte string under
\* `peers` whose length is a multiple of 6, or when `interval` is a negative
\* integer; with `interval` missing and `peers` in order it succeeds.
C30_TrackerParseErrors ==
    r_pc \in {"parsed", "failed", "panicked"}
        => /\ r_pc # "panicked"
           /\ r_pc = "parsed"
                 => /\ HasPeersString(r_decoded)
                    /\ Len(PeersOf(r_decoded).v.s) % 6 = 0
                    /\ ~NegativeInterval(r_decoded)
                    /\ Len(r_response.v.peers) = Len(PeersOf(r_decoded).v.s) \div 6
           /\ (/\ HasPeersString(r_decoded)
               /\ Len(PeersOf(r_decoded).v.s) % 6 = 0
               /\ ~IntervalOf(r_decoded).some)
                 => r_pc = "parsed"

-----------------------------------------------------------------------------
(* The info_hash query parameter: urlencode and url_encode turn the 20      *)
(* bytes of the info-hash into text.                                        *)

notUrl == <<buildVars, sessVars, msgVars, benVars, dictVars, metaVars, hsVars,
           mainVars, trVars, loopVars>>

\* the character of one hexadecimal digit, lowercase
HexDigit(n) == IF n < 10 THEN 48 + n ELSE 87 + n

RECURSIVE LowerHex(_)
\* {:x}: the hexadecimal digits of a number, without leading zeros
LowerHex(n) ==
    IF n < 16 THEN <<HexDigit(n)>>
    ELSE Append(LowerHex(n \div 16), HexDigit(n % 16))

\* format!("{:x}", b): no minimum width
FormatX(b) == LowerHex(b)

\* format!("{:02x}", b): padded with '0' on the left to two characters
Format02x(b) ==
    LET digits == LowerHex(b)
    IN  IF Len(digits) < 2 THEN Fill(2 - Len(digits), 48) \o digits ELSE digits

RECURSIVE PercentLoop(_, _)
\* for b in t { s.push('%'); s.push_str(&format!("{:02x}", b)); }
PercentLoop(t, s) ==
    IF t = <<>> THEN s
    ELSE PercentLoop(Tail(t), s \o <<37>> \o Format02x(Head(t)))

\* urlencode(t)
urlencode(t) == PercentLoop(t, <<>>)

\* url_encode(t)
url_encode(t) == PercentLoop(t, <<>>)

\* bytes placed in the info-hash: below 0x10, at 0x10, ':', letters only,
\* digits and letters, 0xff
UrlBytes == {0, 7, 15, 16, 58, 160, 171, 255}

\* the info-hash of the test, and the same with one byte replaced
UrlHashes ==
    {INFO_HASH} \cup
    {[INFO_HASH EXCEPT ![i] = b] : i \in {1, 10, 20}, b \in UrlBytes}

UrlInit ==
    /\ u_info_hash \in UrlHashes
    /\ u_urlencode = <<>>
    /\ u_url_encode = <<>>

\* let encoded = urlencode(&info_hash).unwrap()
UrlCallUrlencode ==
    /\ u_info_hash # <<>>
    /\ u_urlencode = <<>>
    /\ u_urlencode' = urlencode(u_info_hash)
    /\ UNCHANGED <<u_info_hash, u_url_encode, notUrl>>

\* url_encode(&info_hash).expect("Failed to encode info hash")
UrlCallUrlEncode ==
    /\ u_info_hash # <<>>
    /\ u_url_encode = <<>>
    /\ u_url_encode' = url_encode(u_info_hash)
    /\ UNCHANGED <<u_info_hash, u_urlencode, notUrl>>

InitUrl ==
    /\ AnyBuild /\ UrlInit /\ SessInit /\ MsgIdle /\ BenIdle /\ DictIdle
    /\ MetaIdle /\ HsIdle /\ MainIdle /\ TrackerIdle /\ LoopIdle

NextUrl == UrlCallUrlencode \/ UrlCallUrlEncode

SpecUrl == InitUrl /\ [][NextUrl]_vars

\* the characters 0..9, a..f
HexChars == <<48, 49, 50, 51, 52, 53, 54, 55, 56, 57, 97, 98, 99, 100, 101, 102>>

\* out is, for every byte of t in order, '%' and the two lowercase
\* hexadecimal digits of the byte
PercentEncoded(t, out) ==
    /\ Len(out) = 60
    /\ \A i \in 0..19 :
          /\ out[3 * i + 1] = 37
          /\ out[3 * i + 2] = HexChars[(t[i + 1] \div 16) + 1]
          /\ out[3 * i + 3] = HexChars[(t[i + 1] % 16) + 1]

\* C31: percent-encoding a 20-byte info-hash emits, for every byte in
\* order, '%' and exactly two lowercase hexadecimal digits of the byte, so
\* the output has 60 characters, and urlencode and url_encode return the
\* same string for the same input.
C31_PercentEncoding ==
    /\ u_urlencode # <<>> => PercentEncoded(u_info_hash, u_urlencode)
    /\ u_url_encode # <<>> => PercentEncoded(u_info_hash, u_url_encode)
    /\ (u_urlencode # <<>> /\ u_url_encode # <<>>) => u_urlencode = u_url_encode

\* both functions have encoded the info-hash of test_urlencode, whose byte
\* 0x07 comes out as %07
C31_Witness ==
    /\ u_info_hash = INFO_HASH
    /\ u_urlencode # <<>>
    /\ u_url_encode = u_urlencode
    /\ SubSeq(u_urlencode, 1, 6) = <<37, 100, 54, 37, 57, 102>>
    /\ SubSeq(u_urlencode, 34, 36) = <<37, 48, 55>>

-----------------------------------------------------------------------------
(* The peer session: malformed frames, failures inside download_piece and   *)
(* the order of the socket activity.                                        *)

\* the step is a call that reads a frame from the socket, or the read of
\* one iteration of download_piece
FramedRead ==
    \/ /\ calls' = calls + 1
       /\ last'.op \in {"read", "read_bitfield", "read_unchoke"}
       /\ last'.io # <<>>
    \/ DlReads

\* the payload length the wire protocol allows for a frame of this id
PayloadFits(id, n) ==
    CASE id \in {0, 1, 2, 3} -> n = 0
      [] id = 4 -> n = 4
      [] id = 5 -> TRUE
      [] id \in {6, 8} -> n = 12
      [] id = 7 -> n >= 8
      [] OTHER -> FALSE

\* the stream ends inside a length prefix, or starts with a complete frame
\* whose id is outside 0..8 or whose length does not fit its id
Malformed(buf, closed) ==
    \/ closed /\ Len(buf) \in 1..3
    \/ HasFrame(buf) /\ ~PayloadFits(FrameId(buf), FramePrefix(buf) - 1)

\* C32: reading a frame with a truncated length prefix, a length that does
\* not fit its id, or an id outside 0..8 yields an error result to the
\* caller: the program does not abort and no message is returned.
C32_FramingErrors ==
    [][ (FramedRead /\ Malformed(inbuf, eof))
            => /\ last'.res = "err"
               /\ ~crashed'
               /\ last'.ret = <<>> ]_vars

\* the message a framed read has handed to its caller, <<>> if none
MessageRead ==
    IF DlReads
    THEN (IF Len(dl'.responses) > Len(dl.responses)
          THEN dl'.responses[Len(dl'.responses)]
          ELSE IF last'.res = "ok" THEN last'.ret[Len(last'.ret)] ELSE <<>>)
    ELSE last'.ret

\* C33: decoding a piece frame with length prefix L yields a block of
\* exactly L - 9 bytes, the bytes after index and begin, without padding
\* and without truncation.
C33_PieceBlockLength ==
    [][ (/\ FramedRead
         /\ HasFrame(inbuf)
         /\ FrameId(inbuf) = 7
         /\ FramePrefix(inbuf) >= 9
         /\ MessageRead # <<>>)
            => /\ MessageRead.type = "Piece"
               /\ Len(MessageRead.block) = FramePrefix(inbuf) - 9
               /\ MessageRead.block = SubSeq(inbuf, 14, 4 + FramePrefix(inbuf)) ]_vars

\* the (index, begin) of every request frame a call has written or tried to
\* write, in order
RequestWrites(io) ==
    LET w == SelectSeq(io, LAMBDA e : e.k = "write" /\ e.bytes[5] = 6)
    IN  [j \in 1..Len(w) |->
            <<FromBeBytes(Slice(w[j].bytes, 5, 9)),
              FromBeBytes(Slice(w[j].bytes, 9, 13))>>]

\* no element occurs twice
Distinct(q) == \A i, j \in 1..Len(q) : q[i] = q[j] => i = j

\* the step is the write of one iteration of download_piece
DlWrites == dl.pc = "write" /\ last'.io # last.io /\ calls' = calls

\* the stream starts with a well-formed message that is no piece
NonPieceMessage(buf) ==
    /\ HasFrame(buf)
    /\ FrameId(buf) \in (0..8) \ {7}
    /\ PayloadFits(FrameId(buf), FramePrefix(buf) - 1)

WritesRequest ==
    /\ Len(last'.io) > 0
    /\ last'.io # last.io
    /\ last'.io[Len(last'.io)].k = "write"
    /\ last'.io[Len(last'.io)].bytes[5] = 6

\* the step is a call that wrote bytes and then read from the socket
Exchanged(bytes) ==
    /\ Len(last'.io) = 2
    /\ last'.io[1].k = "write" /\ last'.io[1].ok /\ last'.io[1].bytes = bytes
    /\ last'.io[2].k = "read"

StateRank(st) ==
    CASE st = "Init" -> 0
      [] st = "Handshake" -> 1
      [] st = "Bitfield" -> 2
      [] st = "Interested" -> 3
      [] st = "Unchoke" -> 4

\* C36: under the order Init < Handshake < Bitfield < Interested < Unchoke
\* the session state never decreases, whatever calls are made on the session
\* and however they end.
C36_StateNeverDecreases ==
    [][ StateRank(state') >= StateRank(state) ]_vars

\* the socket activity of a call is request, response, request, response, ..
Alternates(io) ==
    \A j \in 1..Len(io) :
        IF j % 2 = 1 THEN io[j].k = "write" /\ io[j].bytes[5] = 6
        ELSE io[j].k = "frame"

\* C37: within download_piece at most one request is outstanding: the
\* request for block j+1 is written only after the response to the request
\* for block j has been read, so writes and reads on the socket alternate
\* (request, response, request, response, ..), and the returned list holds
\* the responses in the order of the requests they were read after.
C37_OneRequestOutstanding ==
    [][ /\ last'.op = "download_piece" => Alternates(last'.io)
        /\ (DlWrites /\ dl.i > 1)
              => /\ Len(last.io) = 2 * (dl.i - 1)
                 /\ Len(dl.responses) = dl.i - 1
        /\ (DlReads /\ last'.res \in {"running", "ok"})
              => LET got == IF dl'.pc = "idle" THEN last'.ret ELSE dl'.responses
                 IN  /\ Len(last'.io) = 2 * dl.i
                     /\ Len(got) = dl.i
                     /\ SubSeq(got, 1, dl.i - 1) = dl.responses
                     /\ got[dl.i].index = FromBeBytes(SubSeq(inbuf, 6, 9))
                     /\ got[dl.i].begin = FromBeBytes(SubSeq(inbuf, 10, 13))
        /\ (last'.op = "download_piece" /\ last'.res = "ok" /\ last.res = "running")
              => Len(last'.ret) = Len(dl.reqs) ]_vars

\* a download_piece of two blocks has returned after request, response,
\* request, response
C37_Witness ==
    /\ last.op = "download_piece"
    /\ last.res = "ok"
    /\ Len(last.io) = 4
    /\ Len(last.ret) = 2
    /\ Alternates(last.io)

-----------------------------------------------------------------------------
(* The loops of decode_bencoded_list and decode_bencoded_dict, one          *)
(* iteration at a time.                                                     *)

notLoop == <<buildVars, sessVars, msgVars, benVars, dictVars, metaVars, hsVars,
            mainVars, trVars, urlVars>>

\* most children of a list, most entries of a dictionary
MaxItems == 3

\* children: the empty string, a string, integers, an integer without digits,
\* an integer without its 'e', a string cut short
LoopLeaves ==
    { Bytes(<<"0", ":">>), Bytes(<<"1", ":", "a">>), Bytes(<<"i", "1", "e">>),
      Bytes(<<"i", "-", "3", "e">>), Bytes(<<"i", "e">>), Bytes(<<"i", "5">>),
      Bytes(<<"2", ":", "a">>) }

\* keys of dictionary entries
LoopKeys == { Bytes(<<"0", ":">>), Bytes(<<"1", ":", "a">>), Bytes(<<"1", ":", "b">>) }

\* what follows the last child: the closing 'e', nothing, 'e' and more bytes
LoopEnds == { <<101>>, <<>>, <<101, 101>> }

\* lists of up to MaxItems children and dictionaries of up to MaxItems - 1
\* entries
LoopInputs ==
    {<<108>> \o Concat(items) \o end :
        items \in UNION {[1..n -> LoopLeaves] : n \in 0..MaxItems}, end \in LoopEnds}
    \cup
    {<<100>> \o Concat(entries) \o end :
        entries \in UNION {[1..n -> {k \o v : k \in LoopKeys, v \in LoopLeaves}] :
                              n \in 0..(MaxItems - 1)},
        end \in LoopEnds}

LoopInit ==
    /\ l_input \in LoopInputs
    /\ l_rest = <<>>
    /\ l_steps = 0
    /\ l_pc = "new"

\* let mut encoded_value = &encoded_value[1..]
LoopEnter ==
    /\ l_pc = "new"
    /\ l_rest' = Tail(l_input)
    /\ l_pc' = IF l_input[1] = 108 THEN "list" ELSE "dict"
    /\ UNCHANGED <<l_input, l_steps, notLoop>>

\* one pass through the loop of decode_bencoded_list; a loop is followed for
\* at most as many passes as the input has bytes
LoopList ==
    /\ l_pc = "list"
    /\ l_steps < Len(l_input)
    /\ IF Len(l_rest) = 0
       THEN l_pc' = "panicked" /\ UNCHANGED <<l_rest, l_steps>>
       ELSE IF l_rest[1] = 101
       THEN l_pc' = "returned" /\ UNCHANGED <<l_rest, l_steps>>
       ELSE LET child == decode_bencoded_value(l_rest)
            IN  IF ~child.ok \/ child.n > Len(l_rest)
                THEN l_pc' = "panicked" /\ UNCHANGED <<l_rest, l_steps>>
                ELSE /\ l_rest' = Slice(l_rest, child.n, Len(l_rest))
                     /\ l_steps' = l_steps + 1
                     /\ l_pc' = l_pc
    /\ UNCHANGED <<l_input, notLoop>>

\* one pass through the loop of decode_bencoded_dict
LoopDict ==
    /\ l_pc = "dict"
    /\ l_steps < Len(l_input)
    /\ IF Len(l_rest) = 0
       THEN l_pc' = "panicked" /\ UNCHANGED <<l_rest, l_steps>>
       ELSE IF l_rest[1] = 101
       THEN l_pc' = "returned" /\ UNCHANGED <<l_rest, l_steps>>
       ELSE LET key == decode_bencoded_string(l_rest)
                after == IF key.ok /\ key.n <= Len(l_rest)
                         THEN Slice(l_rest, key.n, Len(l_rest)) ELSE <<>>
                value == decode_bencoded_value(after)
            IN  IF ~key.ok \/ key.n > Len(l_rest) \/ ~value.ok
                      \/ value.n > Len(after)
                THEN l_pc' = "panicked" /\ UNCHANGED <<l_rest, l_steps>>
                ELSE /\ l_rest' = Slice(after, value.n, Len(after))
                     /\ l_steps' = l_steps + 1
                     /\ l_pc' = l_pc
    /\ UNCHANGED <<l_input, notLoop>>

InitLoop ==
    /\ AnyBuild /\ LoopInit /\ SessInit /\ MsgIdle /\ BenIdle /\ DictIdle
    /\ MetaIdle /\ HsIdle /\ MainIdle /\ TrackerIdle /\ UrlIdle

NextLoop == LoopEnter \/ LoopList \/ LoopDict

SpecLoop == InitLoop /\ [][NextLoop]_vars

\* C38: decoding terminates on every finite input: every iteration of the
\* list and dictionary loops that goes on consumes at least one byte, so the
\* remaining slice strictly shrinks, and the loop returns or fails after a
\* number of iterations bounded by the length of the input.
C38_DecodingTerminates ==
    [][ (l_pc \in {"list", "dict"})
            => /\ l_pc' = l_pc => Len(l_rest') < Len(l_rest)
               /\ l_pc' = l_pc => l_steps' = l_steps + 1
               /\ l_pc' # l_pc => l_pc' \in {"returned", "panicked"}
               /\ l_steps' + Len(l_rest') <= Len(l_input)
               /\ l_steps' < Len(l_input) ]_vars

\* the loop of a list of three children has returned after three passes
C38_Witness ==
    /\ l_pc = "returned"
    /\ l_input[1] = 108
    /\ l_steps = 3
    /\ l_rest = <<101>>

(***************************************************************************)
(* The download subcommand: the output file and the pieces                 *)
(***************************************************************************)

\* the steps of the run that failed: a download_piece call or a verify_piece
FailedPieceSteps ==
    {i \in 1..Len(c_steps) :
        c_steps[i].step \in {"download_piece", "verify_piece"} /\ ~c_steps[i].ok}

\* every piece 0..N-1 has been downloaded and has passed verify_piece
AllPiecesVerified ==
    /\ Len(c_downloads) = Len(piece_hash(c_info))
    /\ Len(c_payloads) = Len(piece_hash(c_info))
    /\ \A i \in 0..(Len(piece_hash(c_info)) - 1) :
          /\ \E k \in 1..Len(c_steps) :
                c_steps[k] = Step("download_piece",
                                  <<i, PieceLength(c_info, i)>>, TRUE)
          /\ \E k \in 1..Len(c_steps) : c_steps[k] = Step("verify_piece", <<i>>, TRUE)
          /\ verify_piece(c_info, i, c_payloads[i + 1])

\* C40: in the download subcommand the output file is created and written
\* only after every piece 0..N-1 has been downloaded and has passed
\* verify_piece; a run in which a download or a verification failed never
\* creates or writes the file.
C40_FileAfterAllPieces ==
    c_cmd = "download"
        => /\ (c_file.created \/ c_file.writes # <<>>) => AllPiecesVerified
           /\ FailedPieceSteps # {} => (~c_file.created /\ c_file.writes = <<>>)

\* a download of two pieces has ended with both payloads in the file
C40_Witness ==
    /\ c_cmd = "download"
    /\ c_pc = "done"
    /\ c_exit = "ok"
    /\ Len(piece_hash(c_info)) = 2
    /\ c_file.created
    /\ Len(c_file.writes) = 2

====
